---- MODULE Spec2Model ----
(***************************************************************************)
(* Server side of the post-key-exchange SSH core of thrussh:               *)
(*   src/server/mod.rs        run_stream, reply, Config                    *)
(*   src/server/encrypted.rs  server_read_encrypted and the auth protocol  *)
(* An iteration of run_stream's loop is two steps: cipher::read puts a     *)
(* packet in buffer, then the packet is dispatched by reply and the write  *)
(* buffers are flushed to the transport.  Handlers are the environment:    *)
(* their decision and the time they take are inputs of the dispatch.       *)
(***************************************************************************)
EXTENDS Integers, Sequences, FiniteSets, TLC

\* ------------------------------------------------------------------ bounds

\* No request is dispatched once rejection_count has reached MaxRejections.
MaxRejections == 3
\* A handler's future resolves after 0..MaxHandlerTime ticks.
MaxHandlerTime == 2
\* No CHANNEL_OPEN is dispatched once last_channel_id has reached MaxChannelId.
MaxChannelId == 2

\* The clock of the idle timeout stops counting the ticks without a packet
\* of the peer at MaxQuiet.
MaxQuiet == 3

\* The application has at most MaxQueue messages waiting on the queue of the
\* client's session.
MaxQueue == 2

\* Mode strings of a pty-req have up to MaxShortModes tuples, or as many as
\* the mode table holds, or one more.
MaxShortModes == 2

\* let mut modes = [(Pty::TTY_OP_END, 0); 130]
ModeTableSize == 130

\* ------------------------------------------------------------------ inputs

Users == {"alice", "bob"}
SessionIds == {"sid1", "sid2"}
AllMethods == {"none", "password", "publickey", "keyboard-interactive"}

\* Config values a server may be constructed with (times in ticks).
\* connection_timeout: None.
NoTimeout == 0 - 1

Configs ==
  { [methods |-> AllMethods, auth_banner |-> FALSE,
     auth_rejection_time |-> 2, max_auth_attempts |-> 2,
     window_size |-> 4, maximum_packet_size |-> 8,
     connection_timeout |-> 2],
    [methods |-> {"publickey", "password"}, auth_banner |-> TRUE,
     auth_rejection_time |-> 1, max_auth_attempts |-> 1,
     window_size |-> 5, maximum_packet_size |-> 8,
     connection_timeout |-> NoTimeout] }

\* Key blobs: K1 and K2 parse; Kbad gives CouldNotReadKey; Kcut is a blob
\* whose own length fields are truncated (any other parse error).
GoodKeys == {"K1", "K2"}
KeyBlobs == GoodKeys \cup {"Kbad", "Kcut"}
Algos == {"ssh-ed25519"}

\* What a handler's FutureAuth resolves to: Ok((h, auth)) or Err.
AuthDecisions == {"Accept", "Reject", "Partial", "UnsupportedMethod", "Err"}
NoCall == "NoCall"

NoSig == [key |-> "", data |-> <<>>]

\* A u32 the peer sends, as its two 16-bit halves: hi * 2^16 + lo.
U16 == 65536
Zero32 == [hi |-> 0, lo |-> 0]
\* 2^31: twice this is the first sum that does not fit.
Half32 == [hi |-> 32768, lo |-> 0]

NoPkt ==
  [op |-> "none", service |-> "", user |-> "", method |-> "", flag |-> 0,
   algo |-> "", key |-> "", sig |-> NoSig, trunc |-> FALSE,
   channel |-> 0, typ |-> "", sender |-> 0, window |-> Zero32,
   maxpacket |-> 0, amount |-> Zero32, len |-> 0, name |-> "",
   methods |-> <<>>, modes |-> <<>>]

Pkt(op) == [NoPkt EXCEPT !.op = op]

\* buf[0..pos0] of a publickey request: everything before the signature.
InitBytes(p) == <<p.op, p.user, p.service, p.method, p.flag, p.algo, p.key>>

\* What verify_client_auth is given: string(session_id) followed by init.
SignedData(sid, init) == <<sid, init>>

\* Signatures a client can put in a request made of prefix q: any key it
\* holds, over this or another session id, over this prefix or stale bytes.
Signatures(q) ==
  IF q.key \in GoodKeys
  THEN { [key |-> k, data |-> SignedData(sid, InitBytes(q))] :
           k \in GoodKeys, sid \in SessionIds }
       \cup { [key |-> q.key, data |-> SignedData("sid1", <<"stale">>)] }
  ELSE { [key |-> "K1", data |-> SignedData("sid1", InitBytes(q))] }

\* flag is the "change password" boolean; trunc cuts the packet off after
\* the method name.
PasswordRequests ==
  { [NoPkt EXCEPT !.op = "USERAUTH_REQUEST", !.user = u,
                  !.service = "ssh-connection", !.method = "password",
                  !.flag = f] : u \in Users, f \in {0, 1} }
    \cup { [NoPkt EXCEPT !.op = "USERAUTH_REQUEST", !.user = "alice",
                         !.service = "ssh-connection", !.method = "password",
                         !.trunc = TRUE],
           [NoPkt EXCEPT !.op = "USERAUTH_REQUEST", !.user = "alice",
                         !.service = "ssh-userauth", !.method = "password"] }

ProbeRequests ==
  { [NoPkt EXCEPT !.op = "USERAUTH_REQUEST", !.user = u,
                  !.service = "ssh-connection", !.method = "publickey",
                  !.flag = 0, !.algo = a, !.key = k] :
      u \in Users, a \in Algos, k \in KeyBlobs }
    \cup { [NoPkt EXCEPT !.op = "USERAUTH_REQUEST", !.user = "alice",
                         !.service = "ssh-connection", !.method = "publickey",
                         !.trunc = TRUE] }

SignedRequests ==
  UNION { { [q EXCEPT !.flag = 1, !.sig = s] :
              s \in Signatures([q EXCEPT !.flag = 1]) } :
          q \in {r \in ProbeRequests : ~r.trunc} }

KeyboardInteractiveRequests ==
  { [NoPkt EXCEPT !.op = "USERAUTH_REQUEST", !.user = u,
                  !.service = "ssh-connection",
                  !.method = "keyboard-interactive", !.trunc = t] :
      u \in Users, t \in BOOLEAN }

OtherAuthRequests ==
  { [NoPkt EXCEPT !.op = "USERAUTH_REQUEST", !.user = u,
                  !.service = "ssh-connection", !.method = m] :
      u \in Users, m \in {"none", "hostbased"} }

AuthRequests ==
  PasswordRequests \cup ProbeRequests \cup SignedRequests
    \cup KeyboardInteractiveRequests \cup OtherAuthRequests

ServiceRequests ==
  { [NoPkt EXCEPT !.op = "SERVICE_REQUEST", !.service = s, !.trunc = t] :
      s \in {"ssh-userauth", "ssh-connection"}, t \in BOOLEAN }

InfoResponses ==
  { [NoPkt EXCEPT !.op = "USERAUTH_INFO_RESPONSE", !.trunc = t] : t \in BOOLEAN }

\* Packets of the connection protocol that name no channel of the map: a
\* GLOBAL_REQUEST of a name the server does not know and an opcode without
\* an arm.  flag is the want_reply byte.
ConnectionPackets ==
  { [NoPkt EXCEPT !.op = o, !.flag = f,
                  !.name = IF o = "GLOBAL_REQUEST" THEN "keepalive" ELSE ""] :
      o \in {"GLOBAL_REQUEST", "CHANNEL_SUCCESS"}, f \in {0, 1} }

KexPackets == {Pkt("KEXINIT"), Pkt("KEX_ECDH_INIT"), Pkt("NEWKEYS")}

\* Opcodes 2..4: IGNORE, UNIMPLEMENTED, DEBUG.
LowPackets == {Pkt("IGNORE"), Pkt("UNIMPLEMENTED"), Pkt("DEBUG")}

\* Local channel ids a packet can name: those new_channel_id can have given
\* out, open or not.
ChannelIds == 1..MaxChannelId

\* trunc cuts a CHANNEL_OPEN off after the maximum packet size, where the
\* fields of x11 and direct-tcpip begin.
ChannelOpens ==
  { [NoPkt EXCEPT !.op = "CHANNEL_OPEN", !.typ = ty, !.sender = 7,
                  !.window = w, !.maxpacket = 8, !.trunc = tr] :
      ty \in {"session", "x11", "direct-tcpip", "foo"}, w \in {Zero32, Half32},
      tr \in BOOLEAN }

\* len is the length of the payload; trunc cuts the packet off before it.
ChannelDatas ==
  { [NoPkt EXCEPT !.op = o, !.channel = c, !.len = n] :
      o \in {"CHANNEL_DATA", "CHANNEL_EXTENDED_DATA"}, c \in ChannelIds,
      n \in {1, 2, 7} }
    \cup { [NoPkt EXCEPT !.op = "CHANNEL_DATA", !.channel = 1, !.trunc = TRUE] }

WindowAdjusts ==
  { [NoPkt EXCEPT !.op = "CHANNEL_WINDOW_ADJUST", !.channel = c, !.amount = n] :
      c \in ChannelIds, n \in {Zero32, Half32} }
    \cup { [NoPkt EXCEPT !.op = "CHANNEL_WINDOW_ADJUST", !.channel = 1,
                         !.trunc = TRUE] }

ChannelCloses ==
  { [NoPkt EXCEPT !.op = o, !.channel = c] :
      o \in {"CHANNEL_CLOSE", "CHANNEL_EOF"}, c \in ChannelIds }

\* The request names with an arm of their own, and the handler method of
\* each.
RequestHandlers ==
  [n \in {"pty-req", "x11-req", "env", "shell", "exec", "subsystem",
          "window-change", "signal"} |->
     CASE n = "pty-req" -> "pty_request"
       [] n = "x11-req" -> "x11_request"
       [] n = "env" -> "env_request"
       [] n = "shell" -> "shell_request"
       [] n = "exec" -> "exec_request"
       [] n = "subsystem" -> "subsystem_request"
       [] n = "window-change" -> "window_change_request"
       [] OTHER -> "signal"]

\* CHANNEL_REQUEST(channel, name, want_reply, ..): flag is the want_reply
\* byte; trunc cuts the packet off after it, where the fields of the request
\* begin (shell has none).
ChannelRequests ==
  { [NoPkt EXCEPT !.op = "CHANNEL_REQUEST", !.channel = c, !.name = n,
                  !.flag = f, !.trunc = tr] :
      c \in {1}, n \in {"shell", "exec", "foo"}, f \in {0, 1},
      tr \in BOOLEAN }

\* GLOBAL_REQUEST(name, want_reply, ..); trunc cuts the packet off after
\* want_reply.
GlobalRequests ==
  { [NoPkt EXCEPT !.op = "GLOBAL_REQUEST", !.name = n, !.flag = f,
                  !.trunc = tr] :
      n \in {"tcpip-forward", "cancel-tcpip-forward", "keepalive"},
      f \in {0, 1}, tr \in BOOLEAN }

\* The opcodes of RFC 4254, section 8, that Pty::from_u8 knows.
KnownCodes ==
  (1..18) \cup (30..41) \cup (50..62) \cup (70..75) \cup (90..93)
    \cup {128, 129}

\* n tuples (code, 1) of five bytes each.
Repeat(n, code) ==
  [k \in 1..(5 * n) |-> IF k % 5 = 1 THEN code ELSE IF k % 5 = 0 THEN 1 ELSE 0]

\* Encoded terminal modes: tuples of a known opcode (VINTR) or of one
\* Pty::from_u8 does not know, followed by nothing, by TTY_OP_END, by a
\* tuple cut short, or by TTY_OP_END and bytes after it.
ModeStrings ==
  { Repeat(n, c) \o tail :
      n \in (0..MaxShortModes) \cup {ModeTableSize, ModeTableSize + 1},
      c \in {1, 200},
      tail \in {<<>>, <<0>>, <<1>>, <<1, 0, 0>>, <<0, 1, 0, 0, 0, 9>>} }

\* CHANNEL_REQUEST(channel, "pty-req", want_reply, term, four u32, modes).
PtyRequests ==
  { [NoPkt EXCEPT !.op = "CHANNEL_REQUEST", !.channel = 1,
                  !.name = "pty-req", !.flag = f, !.modes = ms] :
      f \in {0, 1}, ms \in ModeStrings }

ChannelPackets ==
  ChannelOpens \cup ChannelDatas \cup WindowAdjusts \cup ChannelCloses
    \cup ChannelRequests

\* The CHANNEL_OPEN of a session channel, as a client sends it once it is
\* authenticated (or before).
SessionOpens ==
  { p \in ChannelOpens : p.typ = "session" /\ p.window = Half32 /\ ~p.trunc }

Packets ==
  KexPackets \cup ServiceRequests \cup AuthRequests \cup InfoResponses
    \cup ConnectionPackets \cup LowPackets \cup {Pkt("DISCONNECT")}
    \cup SessionOpens

\* ------------------------------------------------------------------- state

VARIABLES
  config,        \* Config, immutable
  status,        \* run_stream: "running", "closed" (Ok), "failed" (Err), "panicked"
  err,           \* the error run_stream returned, "" when none
  buffer,        \* the packet cipher::read returned, NoPkt once it is cleared
  kex,           \* session.common.kex: "None", "KexInit", "KexDh", "NewKeys"
  state,         \* enc.state's variant; "NotEncrypted" while encrypted is None
  accepted,      \* WaitingServiceRequest { accepted }
  auth_request,  \* the AuthRequest of WaitingAuthRequest
  auth_user,     \* session.common.auth_user
  exchange,      \* enc.exchange.is_some()
  session_id,    \* enc.session_id
  write,         \* enc.write: packets pushed and not yet flushed
  write_buffer,  \* session.common.write_buffer: not yet written to the stream
  sent,          \* what this iteration wrote to the stream
  now,           \* the clock, in ticks since the packet in dispatch arrived
  auth,          \* what the handler answered in this iteration
  hdur,          \* how long that handler took
  called,        \* the handler methods this iteration invoked
  channels,      \* enc.channels: local id -> Channel
  last_channel_id, \* enc.last_channel_id
  seen,          \* what had been pushed when the last handler was invoked
  observed,      \* the ids of enc.channels when the last handler was invoked
  args,          \* the arguments the last handler was invoked with
  handled,       \* the opcode of the packet this iteration gave to reply
  kex_session_id, \* the session id the Kex in the slot carries, "" for none
  shutdown,      \* stream.tcp_shutdown() was called
  timer,         \* ticks since select! was entered (idle) and since the
                 \* last packet of the peer was read (quiet)
  client         \* the client role's session: auth method, queues to and
                 \* from the application

vars ==
  <<config, status, err, buffer, kex, state, accepted, auth_request,
    auth_user, exchange, session_id, write, write_buffer, sent, now, auth,
    hdur, called, channels, last_channel_id, seen, observed, args, handled,
    kex_session_id, shutdown, timer, client>>

\* tokio::select! is entered and a packet of the peer was just read.
StartTimer == [idle |-> 0, quiet |-> 0]

\* The session of a server has no client side.
NoClient == [role |-> "server"]

NoCurrent ==
  [tag |-> "None", key |-> "", algo |-> "", sent_pk_ok |-> FALSE,
   submethods |-> ""]

NoAuthRequest ==
  [methods |-> {}, partial_success |-> FALSE, current |-> NoCurrent,
   rejection_count |-> 0]

Max(a, b) == IF a >= b THEN a ELSE b


\* The session as the functions below pass it along: the fields of Session,
\* CommonSession and Encrypted they read or write, the clock t, the handler
\* methods invoked so far, what the last of them was given and could see,
\* the Result (res = "Ok", an Error kind, or "Panic"), whether the build
\* checks integer overflow, and whether the next flush finds config.limits
\* reached.
Snapshot ==
  [kex |-> kex, state |-> state, accepted |-> accepted,
   auth_request |-> auth_request, auth_user |-> auth_user,
   exchange |-> exchange, session_id |-> session_id, write |-> write,
   write_buffer |-> write_buffer, t |-> now, called |-> <<>>, res |-> "Ok",
   channels |-> channels, last_channel_id |-> last_channel_id,
   seen |-> <<>>, observed |-> {}, args |-> <<>>,
   overflow_checks |-> FALSE,
   limits |-> FALSE, kex_session_id |-> kex_session_id]

Fail(s, e) == [s EXCEPT !.res = e]

\* h.method(..).await?: the handler runs for d ticks and resolves to a.
HandlerCall(s, name, a, d) ==
  [s EXCEPT !.called = Append(@, name), !.t = @ + d,
            !.seen = s.write_buffer \o s.write,
            !.observed = DOMAIN s.channels,
            !.res = IF a = "Err" THEN "HandlerError" ELSE @]

\* ------------------------------------------------- server/encrypted.rs

\* server_accept_service that pushes the banner before SERVICE_ACCEPT.
server_accept_service_banner_first(banner, methods, w) ==
  [write |->
     w \o (IF banner THEN <<[op |-> "USERAUTH_BANNER"]>> ELSE <<>>)
       \o <<[op |-> "SERVICE_ACCEPT", service |-> "ssh-userauth"]>>,
   auth_request |->
     [methods |-> methods, partial_success |-> FALSE, current |-> NoCurrent,
      rejection_count |-> 0]]

\* server_accept_service: SERVICE_ACCEPT, the banner when one is configured,
\* and the AuthRequest the state WaitingAuthRequest starts with.
server_accept_service(banner, methods, w) ==
  [write |->
     w \o <<[op |-> "SERVICE_ACCEPT", service |-> "ssh-userauth"]>>
            \o (IF banner THEN <<[op |-> "USERAUTH_BANNER"]>> ELSE <<>>),
   auth_request |->
     [methods |-> methods, partial_success |-> FALSE, current |-> NoCurrent,
      rejection_count |-> 0]]

\* server_auth_request_success with the neighbouring opcode, 53 for 52.
server_auth_request_success_banner(w) ==
  Append(w, [op |-> "USERAUTH_BANNER"])

server_auth_request_success(w) ==
  Append(w, [op |-> "USERAUTH_SUCCESS"])

\* delay_until that resumes at once, whatever the deadline.
delay_until_skipped(t, until) == t

\* A sleep computed when the rejection is reached, instead of a deadline.
delay_until_sleep(t, until) == t + config.auth_rejection_time

\* tokio::time::delay_until(until).await: resumes at until, or at once when
\* until has passed.
delay_until(t, until) == Max(t, until)

\* reject_auth_request that forgets to clear the current request.
reject_auth_request_keeps_current(until, s) ==
  [s EXCEPT
     !.write = Append(@, [op |-> "USERAUTH_FAILURE",
                          methods |-> s.auth_request.methods,
                          partial |-> IF s.auth_request.partial_success
                                      THEN 1 ELSE 0]),
     !.auth_request.rejection_count = @ + 1,
     !.t = delay_until(@, until)]

reject_auth_request(until, s) ==
  [s EXCEPT
     !.write = Append(@, [op |-> "USERAUTH_FAILURE",
                          methods |-> s.auth_request.methods,
                          partial |-> IF s.auth_request.partial_success
                                      THEN 1 ELSE 0]),
     !.auth_request.current = NoCurrent,
     !.auth_request.rejection_count = @ + 1,
     !.t = delay_until(@, until)]

\* reply_userauth_info_response whose Partial arm ends the request in
\* progress.
reply_userauth_info_response_ends_request(until, s, a) ==
  CASE a = "Accept" ->
         [s |-> [s EXCEPT !.write = server_auth_request_success(@)],
          ok |-> TRUE]
    [] a = "Reject" ->
         [s |-> reject_auth_request(until,
                  [s EXCEPT !.auth_request.partial_success = FALSE]),
          ok |-> FALSE]
    [] a = "Partial" ->
         [s |-> [s EXCEPT !.write = Append(@, [op |-> "USERAUTH_INFO_REQUEST"]),
                          !.auth_request.current = NoCurrent],
          ok |-> FALSE]
    [] OTHER -> [s |-> Fail(s, "Panic"), ok |-> FALSE]

\* Auth::Accept / Reject / Partial / UnsupportedMethod after a
\* keyboard-interactive handler call; ok is the bool of Ok(bool).
reply_userauth_info_response(until, s, a) ==
  CASE a = "Accept" ->
         [s |-> [s EXCEPT !.write = server_auth_request_success(@)],
          ok |-> TRUE]
    [] a = "Reject" ->
         [s |-> reject_auth_request(until,
                  [s EXCEPT !.auth_request.partial_success = FALSE]),
          ok |-> FALSE]
    [] a = "Partial" ->
         [s |-> [s EXCEPT !.write = Append(@, [op |-> "USERAUTH_INFO_REQUEST"])],
          ok |-> FALSE]
    [] OTHER -> [s |-> Fail(s, "Panic"), ok |-> FALSE]

read_userauth_info_response(until, s, p, a, d) ==
  IF s.auth_request.current.tag = "KeyboardInteractive"
  THEN IF p.trunc
       THEN [s |-> Fail(s, "MalformedPacket"), ok |-> FALSE]
       ELSE LET h == HandlerCall(s, "auth_keyboard_interactive", a, d)
            IN  IF h.res # "Ok" THEN [s |-> h, ok |-> FALSE]
                ELSE reply_userauth_info_response(until, h, a)
  ELSE [s |-> reject_auth_request(until, s), ok |-> FALSE]

\* key::PublicKey::parse(pubkey_algo, pubkey_key)
PublicKey_parse(algo, blob) ==
  CASE blob \in GoodKeys -> "Ok"
    [] blob = "Kbad" -> "CouldNotReadKey"
    [] OTHER -> "IndexOutOfBounds"

\* pubkey.verify_client_auth(&buf, sig): sig is a signature by pubkey's
\* private half over exactly these bytes.
verify_client_auth(pubkey, buf, sig) ==
  sig.key = pubkey /\ sig.data = buf

\* is_valid_signed without the comparison of the request's user to auth_user.
is_valid_signed_any_user(s, p, a, d) ==
  LET sent_pk_ok == s.auth_request.current.tag = "PublicKey"
                    /\ s.auth_request.current.sent_pk_ok
  IN  IF sent_pk_ok
      THEN [s |-> s, ok |-> TRUE]
      ELSE IF s.auth_user = ""
      THEN LET h == HandlerCall([s EXCEPT !.auth_user = p.user],
                                "auth_publickey", a, d)
           IN  [s |-> h, ok |-> a = "Accept"]
      ELSE [s |-> s, ok |-> FALSE]

\* let is_valid = ... of a request with is_real != 0: the session after the
\* optional handler call and the bool.
is_valid_signed(s, p, a, d) ==
  LET sent_pk_ok == s.auth_request.current.tag = "PublicKey"
                    /\ s.auth_request.current.sent_pk_ok
  IN  IF sent_pk_ok /\ p.user = s.auth_user
      THEN [s |-> s, ok |-> TRUE]
      ELSE IF s.auth_user = ""
      THEN LET h == HandlerCall([s EXCEPT !.auth_user = p.user],
                                "auth_publickey", a, d)
           IN  [s |-> h, ok |-> a = "Accept"]
      ELSE [s |-> s, ok |-> FALSE]

\* probe_accepted that answers with the algorithm name in place of the key.
probe_accepted_algo_twice(h, pubkey_algo, pubkey_key) ==
  [h EXCEPT
     !.write = Append(@, [op |-> "USERAUTH_PK_OK", algo |-> pubkey_algo,
                          key |-> pubkey_algo]),
     !.auth_request.current =
        [NoCurrent EXCEPT !.tag = "PublicKey", !.key = pubkey_key,
                          !.algo = pubkey_algo, !.sent_pk_ok = TRUE]]

\* The Accept branch of a probe: USERAUTH_PK_OK is pushed and the request is
\* remembered as CurrentRequest::PublicKey.
probe_accepted(h, pubkey_algo, pubkey_key) ==
  [h EXCEPT
     !.write = Append(@, [op |-> "USERAUTH_PK_OK", algo |-> pubkey_algo,
                          key |-> pubkey_key]),
     !.auth_request.current =
        [NoCurrent EXCEPT !.tag = "PublicKey", !.key = pubkey_key,
                          !.algo = pubkey_algo, !.sent_pk_ok = TRUE]]

\* key_parse_failed that returns every parse error to the caller.
key_parse_failed_fatal(until, s, e) == Fail(s, e)

\* The Err(e) arm of match key::PublicKey::parse: CouldNotReadKey is a
\* rejection and Ok(()), any other error is returned.
key_parse_failed(until, s, e) ==
  IF e = "CouldNotReadKey"
  THEN reject_auth_request(until, s)
  ELSE Fail(s, e)

server_read_auth_request_pk(until, s, p, a, d) ==
  IF p.trunc THEN Fail(s, "MalformedPacket")
  ELSE
  LET parsed == PublicKey_parse(p.algo, p.key) IN
  CASE parsed = "Ok" ->
         IF p.flag # 0
         THEN LET v == is_valid_signed(s, p, a, d) IN
              IF v.s.res # "Ok" THEN v.s
              ELSE IF v.ok
              THEN IF verify_client_auth(p.key,
                        SignedData(s.session_id, InitBytes(p)), p.sig)
                   THEN [v.s EXCEPT !.write = server_auth_request_success(@),
                                    !.state = "Authenticated"]
                   ELSE reject_auth_request(until, v.s)
              ELSE reject_auth_request(until, v.s)
         ELSE LET h == HandlerCall([s EXCEPT !.auth_user = p.user],
                                   "auth_publickey", a, d) IN
              IF h.res # "Ok" THEN h
              ELSE IF a = "Accept"
              THEN probe_accepted(h, p.algo, p.key)
              ELSE reject_auth_request(until,
                     [h EXCEPT !.auth_request.partial_success = FALSE,
                               !.auth_user = ""])
    [] OTHER -> key_parse_failed(until, s, parsed)

\* password_refused that leaves password among the permitted methods.
password_refused_keeps_method(h) ==
  [h EXCEPT !.auth_user = "",
            !.auth_request.partial_success = FALSE]

\* The else branch of if let Auth::Accept = auth, before the rejection.
password_refused(h) ==
  [h EXCEPT !.auth_user = "",
            !.auth_request.methods = @ \ {"password"},
            !.auth_request.partial_success = FALSE]

server_read_auth_request(until, s, p, a, d) ==
  IF p.service = "ssh-connection"
  THEN CASE p.method = "password" ->
              LET s1 == [s EXCEPT !.auth_user = p.user] IN
              IF p.trunc THEN Fail(s1, "MalformedPacket")
              ELSE LET h == HandlerCall(s1, "auth_password", a, d) IN
                   IF h.res # "Ok" THEN h
                   ELSE IF a = "Accept"
                   THEN [h EXCEPT !.write = server_auth_request_success(@),
                                  !.state = "Authenticated"]
                   ELSE reject_auth_request(until, password_refused(h))
         [] p.method = "publickey" ->
              server_read_auth_request_pk(until, s, p, a, d)
         [] p.method = "keyboard-interactive" ->
              LET s1 == [s EXCEPT !.auth_user = p.user] IN
              IF p.trunc THEN Fail(s1, "MalformedPacket")
              ELSE LET s2 == [s1 EXCEPT !.auth_request.current =
                                 [NoCurrent EXCEPT !.tag = "KeyboardInteractive"]]
                       h == HandlerCall(s2, "auth_keyboard_interactive", a, d)
                   IN  IF h.res # "Ok" THEN h
                       ELSE LET r == reply_userauth_info_response(until, h, a)
                            IN  IF r.s.res = "Ok" /\ r.ok
                                THEN [r.s EXCEPT !.state = "Authenticated"]
                                ELSE r.s
         [] OTHER -> reject_auth_request(until, s)
  ELSE Fail(s, "Inconsistent")

\* ------------------------------------------------------- channel layer

\* h.method(channel, x, self).await? of the channel handlers.
HandlerCallWith(s, name, x, a) ==
  [HandlerCall(s, name, a, 0) EXCEPT !.args = x]

\* channels with id mapped to c, and with id removed.
Insert(m, id, c) ==
  [i \in DOMAIN m \cup {id} |-> IF i = id THEN c ELSE m[i]]

Remove(m, id) == [i \in DOMAIN m \ {id} |-> m[i]]

\* Encrypted::new_channel_id: the next id after last_channel_id that is not
\* in the map.
RECURSIVE FreeId(_, _)
FreeId(m, i) == IF i \in DOMAIN m THEN FreeId(m, i + 1) ELSE i

new_channel_id(s) ==
  LET id == FreeId(s.channels, s.last_channel_id + 1)
  IN  [s |-> [s EXCEPT !.last_channel_id = id], id |-> id]

\* Encrypted::adjust_window_size(channel, data, target): a payload that fits
\* is taken off the local window, one that does not fit leaves it alone; a
\* window below half of target is restored to target by a
\* CHANNEL_WINDOW_ADJUST.  An id that is not in the map changes nothing.
adjust_window_size(s, id, len, target) ==
  IF id \notin DOMAIN s.channels THEN s
  ELSE LET c == s.channels[id]
           w == IF len <= c.sender_window_size
                THEN c.sender_window_size - len
                ELSE c.sender_window_size
       IN  IF 2 * w < target
           THEN [s EXCEPT
                  !.write = Append(@, [op |-> "CHANNEL_WINDOW_ADJUST",
                                       recipient |-> c.recipient_channel,
                                       amount |-> target - w]),
                  !.channels[id].sender_window_size = target]
           ELSE [s EXCEPT !.channels[id].sender_window_size = w]

\* Session::flush: what was pushed to enc.write is encrypted into
\* common.write_buffer; when that reaches config.limits and the Exchange is
\* in its slot, a rekey is initiated: the Exchange goes into a new KexInit
\* whose KEXINIT is written.
session_flush(s) ==
  LET f == [s EXCEPT !.write_buffer = @ \o s.write, !.write = <<>>,
                     !.limits = FALSE]
  IN  IF s.limits /\ s.state # "NotEncrypted" /\ s.exchange
      THEN [f EXCEPT !.exchange = FALSE, !.kex = "KexInit",
                     !.kex_session_id = s.session_id,
                     !.write_buffer = Append(@, [op |-> "KEXINIT"])]
      ELSE f

\* server_confirm_channel_open with the two channel numbers in each other's
\* place.
server_confirm_channel_open_swapped(w, channel) ==
  Append(w, [op |-> "CHANNEL_OPEN_CONFIRMATION",
             recipient |-> channel.sender_channel,
             sender |-> channel.recipient_channel,
             window |-> config.window_size,
             maxpacket |-> config.maximum_packet_size])

\* CHANNEL_OPEN_CONFIRMATION(remote channel number, our channel number,
\* config.window_size, config.maximum_packet_size).
server_confirm_channel_open(w, channel) ==
  Append(w, [op |-> "CHANNEL_OPEN_CONFIRMATION",
             recipient |-> channel.recipient_channel,
             sender |-> channel.sender_channel,
             window |-> config.window_size,
             maxpacket |-> config.maximum_packet_size])

confirm_channel_open(s, channel) ==
  [s EXCEPT !.write = server_confirm_channel_open(@, channel),
            !.channels = Insert(@, channel.sender_channel, channel)]

\* channel_open_failure with the reason code of its neighbour, 2 for 3.
channel_open_failure_connect_failed(s, sender) ==
  [s EXCEPT !.write = Append(@, [op |-> "CHANNEL_OPEN_FAILURE",
                                 recipient |-> sender, reason |-> 2,
                                 description |-> "Unknown channel type",
                                 language |-> "en"])]

\* The arm t => of match typ: SSH_OPEN_UNKNOWN_CHANNEL_TYPE.
channel_open_failure(s, sender) ==
  [s EXCEPT !.write = Append(@, [op |-> "CHANNEL_OPEN_FAILURE",
                                 recipient |-> sender, reason |-> 3,
                                 description |-> "Unknown channel type",
                                 language |-> "en"])]

server_handle_channel_open(s, p, a) ==
  LET n == new_channel_id(s)
      channel ==
        [recipient_channel |-> p.sender,
         sender_channel |-> n.id,
         recipient_window_size |-> p.window,
         sender_window_size |-> config.window_size,
         recipient_maximum_packet_size |-> p.maxpacket,
         sender_maximum_packet_size |-> config.maximum_packet_size,
         confirmed |-> TRUE,
         wants_reply |-> FALSE]
  IN
  CASE p.typ = "session" ->
         HandlerCallWith(confirm_channel_open(n.s, channel),
                         "channel_open_session", <<n.id>>, a)
    [] p.typ = "x11" ->
         LET c == confirm_channel_open(n.s, channel) IN
         IF p.trunc THEN Fail(c, "MalformedPacket")
         ELSE HandlerCallWith(c, "channel_open_x11", <<n.id>>, a)
    [] p.typ = "direct-tcpip" ->
         LET c == confirm_channel_open(n.s, channel) IN
         IF p.trunc THEN Fail(c, "MalformedPacket")
         ELSE HandlerCallWith(c, "channel_open_direct_tcpip", <<n.id>>, a)
    [] OTHER -> channel_open_failure(n.s, p.sender)

\* a + b on u32: the sum modulo 2^32 and whether it overflowed.
Add32(a, b) ==
  LET lo == a.lo + b.lo
      hi == a.hi + b.hi + (lo \div U16)
  IN  [sum |-> [hi |-> hi % U16, lo |-> lo % U16], overflow |-> hi >= U16]

\* channel.recipient_window_size += amount on u32: an overflow panics in a
\* build with overflow checks and wraps around in one without.
window_add(s, id, amount) ==
  LET r == Add32(s.channels[id].recipient_window_size, amount)
  IN  IF r.overflow /\ s.overflow_checks
      THEN Fail(s, "Panic")
      ELSE [s EXCEPT !.channels[id].recipient_window_size = r.sum]

\* channel_data that hands the payload to the handler before the window is
\* adjusted.
channel_data_handler_first(s, p, a) ==
  LET h == HandlerCallWith(s, IF p.op = "CHANNEL_DATA" THEN "data"
                              ELSE "extended_data",
                           <<p.channel, p.len>>, a)
  IN  session_flush(adjust_window_size(h, p.channel, p.len,
                                       config.window_size))

\* The arm CHANNEL_EXTENDED_DATA | CHANNEL_DATA once the packet is read:
\* adjust_window_size, flush, then h.data or h.extended_data.
channel_data(s, p, a) ==
  LET w == adjust_window_size(s, p.channel, p.len, config.window_size)
  IN  HandlerCallWith(session_flush(w),
                      IF p.op = "CHANNEL_DATA" THEN "data"
                      ELSE "extended_data",
                      <<p.channel, p.len>>, a)

\* match buf[0] in server_read_authenticated.
\* x => push CHANNEL_FAILURE: the arm of a request name without an arm of
\* its own, whatever want_reply is.
channel_failure(s, p) ==
  [s EXCEPT !.write = Append(@, [op |-> "CHANNEL_FAILURE"])]

\* The loop over mode_string, by the iteration i at which it ends: it
\* leaves at 5 * i >= len or at an opcode 0, and it panics where
\* BigEndian::read_u32 gets a slice of fewer than four bytes or where
\* modes[i] of a known opcode is past the table.  modes holds the entries
\* written until then; the entry of an unknown opcode stays as the table
\* was filled, (TTY_OP_END, 0).
read_modes(ms) ==
  LET leaves(k) == ~(5 * k < Len(ms)) \/ ms[5 * k + 1] = 0
      panics(k) ==
        /\ ~leaves(k)
        /\ \/ Len(ms) - (5 * k + 1) < 4
           \/ ms[5 * k + 1] \in KnownCodes /\ k >= ModeTableSize
      ends == { k \in 0..(Len(ms) \div 5 + 1) : leaves(k) \/ panics(k) }
      i == CHOOSE k \in ends : \A j \in ends : k <= j
      entry(k) ==
        IF ms[5 * k + 1] \in KnownCodes
        THEN <<ms[5 * k + 1], SubSeq(ms, 5 * k + 2, 5 * k + 5)>>
        ELSE <<0, <<0, 0, 0, 0>>>>
  IN  [panic |-> panics(i), i |-> i,
       modes |-> [k \in 1..(IF i < ModeTableSize THEN i ELSE ModeTableSize)
                    |-> entry(k - 1)]]

\* The arm of pty-req: the modes are read into the table and
\* &modes[0..i] is given to h.pty_request; the slice panics when i is
\* past the table.
pty_request(s, p, a) ==
  IF p.trunc THEN Fail(s, "MalformedPacket")
  ELSE LET r == read_modes(p.modes) IN
       IF r.panic \/ r.i > ModeTableSize THEN Fail(s, "Panic")
       ELSE HandlerCallWith(s, "pty_request", <<p.channel, r.modes>>, a)

\* CHANNEL_REQUEST: wants_reply is recorded in the channel when the map has
\* it, then the request goes to the handler method of its name.
channel_request(s, p, a) ==
  LET w == IF p.channel \in DOMAIN s.channels
           THEN [s EXCEPT !.channels[p.channel].wants_reply = (p.flag # 0)]
           ELSE s
  IN  IF p.name = "pty-req" THEN pty_request(w, p, a)
      ELSE IF p.name \in DOMAIN RequestHandlers
      THEN IF p.trunc /\ p.name # "shell"
           THEN Fail(w, "MalformedPacket")
           ELSE HandlerCallWith(w, RequestHandlers[p.name], <<p.channel>>, a)
      ELSE channel_failure(w, p)

\* _ => push REQUEST_FAILURE: the arm of a global request of another name,
\* whatever want_reply is.
request_failure(s, p) ==
  [s EXCEPT !.write = Append(@, [op |-> "REQUEST_FAILURE"])]

\* GLOBAL_REQUEST: tcpip-forward and cancel-tcpip-forward ask the handler
\* and answer REQUEST_SUCCESS or REQUEST_FAILURE by its result.
global_request(s, p, a) ==
  IF p.name \in {"tcpip-forward", "cancel-tcpip-forward"}
  THEN IF p.trunc THEN Fail(s, "MalformedPacket")
       ELSE LET h == HandlerCallWith(s,
                       IF p.name = "tcpip-forward" THEN "tcpip_forward"
                       ELSE "cancel_tcpip_forward", <<>>, a)
            IN  IF h.res # "Ok" THEN h
                ELSE [h EXCEPT !.write =
                        Append(@, [op |-> IF a = "Refuse"
                                          THEN "REQUEST_FAILURE"
                                          ELSE "REQUEST_SUCCESS"])]
  ELSE request_failure(s, p)

\* channel_close that takes the channel off the map once the handler has
\* returned.
channel_close_handler_first(s, p, a) ==
  LET h == HandlerCallWith(s, "channel_close", <<p.channel>>, a)
  IN  IF h.res # "Ok" THEN h
      ELSE [h EXCEPT !.channels = Remove(@, p.channel)]

\* CHANNEL_CLOSE: enc.channels.remove(&channel_num), then
\* h.channel_close(channel_num, self).
channel_close(s, p, a) ==
  HandlerCallWith([s EXCEPT !.channels = Remove(@, p.channel)],
                  "channel_close", <<p.channel>>, a)

server_read_authenticated(s, p, a) ==
  CASE p.op = "CHANNEL_OPEN" -> server_handle_channel_open(s, p, a)
    [] p.op = "CHANNEL_CLOSE" -> channel_close(s, p, a)
    [] p.op = "CHANNEL_EOF" ->
         HandlerCallWith(s, "channel_eof", <<p.channel>>, a)
    [] p.op \in {"CHANNEL_DATA", "CHANNEL_EXTENDED_DATA"} ->
         IF p.trunc THEN Fail(s, "MalformedPacket")
         ELSE channel_data(s, p, a)
    [] p.op = "CHANNEL_WINDOW_ADJUST" ->
         IF p.trunc THEN Fail(s, "MalformedPacket")
         ELSE IF p.channel \in DOMAIN s.channels
         THEN LET w == window_add(s, p.channel, p.amount) IN
              IF w.res # "Ok" THEN w
              ELSE HandlerCallWith(w, "window_adjusted",
                     <<p.channel, w.channels[p.channel].recipient_window_size>>,
                     a)
         ELSE Fail(s, "WrongChannel")
    [] p.op = "CHANNEL_REQUEST" -> channel_request(s, p, a)
    [] p.op = "GLOBAL_REQUEST" -> global_request(s, p, a)
    [] OTHER -> s

\* ---------------------------------------------------- key exchange slot

\* KexInit::server_parse: a KEXINIT is answered (with our own KEXINIT when it
\* was not sent yet) and the exchange moves on to KexDh; any other packet
\* leaves the KexInit as it is.
server_parse(s, p, kexinit_sent) ==
  IF p.op = "KEXINIT"
  THEN [s EXCEPT !.kex = "KexDh",
                 !.write_buffer = IF kexinit_sent THEN @
                                  ELSE Append(@, [op |-> "KEXINIT"])]
  ELSE [s EXCEPT !.kex = "KexInit"]

\* KexDh::parse: KEX_ECDH_INIT is answered by KEX_ECDH_REPLY and NEWKEYS.
kexdh_parse(s, p) ==
  IF p.op = "KEX_ECDH_INIT"
  THEN [s EXCEPT !.kex = "NewKeys",
                 !.write_buffer = @ \o <<[op |-> "KEX_ECDH_REPLY"],
                                         [op |-> "NEWKEYS"]>>]
  ELSE [s EXCEPT !.kex = "KexDh"]

\* rekey_session_id that hands over no session id, as the first key
\* exchange has none.
rekey_session_id_none(s) == ""

\* &enc.session_id: the session id KexInit::received_rekey is given.
rekey_session_id(s) == s.session_id

\* received_rekey that does not look whether the Exchange is still there.
received_rekey_unguarded(s, p) ==
  server_parse([s EXCEPT !.exchange = FALSE,
                         !.kex_session_id = rekey_session_id(s)], p, FALSE)

\* if let Some(exchange) = enc.exchange.take(): a KEXINIT of the peer starts a
\* key exchange with the Exchange of the encrypted state, and does nothing
\* when a rekey has taken the Exchange already.
received_rekey(s, p) ==
  IF s.exchange
  THEN server_parse([s EXCEPT !.exchange = FALSE,
                              !.kex_session_id = rekey_session_id(s)],
                    p, FALSE)
  ELSE s

\* CommonSession::encrypted(state, newkeys): installs Encrypted with the given
\* state on the first key exchange; a rekey gives the Exchange back and
\* leaves state, session id and auth sub-state as they are.
encrypted(s, st, sid) ==
  IF s.state = "NotEncrypted"
  THEN [s EXCEPT !.state = st, !.accepted = FALSE,
                 !.session_id = IF s.kex_session_id = "" THEN sid
                                ELSE s.kex_session_id,
                 !.exchange = TRUE]
  ELSE [s EXCEPT !.exchange = TRUE]

\* ------------------------------------------------- server_read_encrypted

\* MatchArm with the state guard of the SERVICE_REQUEST arm left out.
MatchArm_unguarded(st, op) ==
  CASE op = "SERVICE_REQUEST" -> "service"
    [] st = "WaitingAuthRequest" /\ op = "USERAUTH_REQUEST" -> "auth_request"
    [] st = "WaitingAuthRequest" /\ op = "USERAUTH_INFO_RESPONSE" -> "info_response"
    [] st = "Authenticated" -> "authenticated"
    [] OTHER -> "ignore"

\* MatchArm with the last arm taking what the arm of Authenticated takes.
MatchArm_any_state(st, op) ==
  CASE st = "WaitingServiceRequest" /\ op = "SERVICE_REQUEST" -> "service"
    [] st = "WaitingAuthRequest" /\ op = "USERAUTH_REQUEST" -> "auth_request"
    [] st = "WaitingAuthRequest" /\ op = "USERAUTH_INFO_RESPONSE" -> "info_response"
    [] OTHER -> "authenticated"

\* The arm of match enc.state that takes a packet with opcode op.
MatchArm(st, op) ==
  CASE st = "WaitingServiceRequest" /\ op = "SERVICE_REQUEST" -> "service"
    [] st = "WaitingAuthRequest" /\ op = "USERAUTH_REQUEST" -> "auth_request"
    [] st = "WaitingAuthRequest" /\ op = "USERAUTH_INFO_RESPONSE" -> "info_response"
    [] st = "Authenticated" -> "authenticated"
    [] OTHER -> "ignore"

\* let instant = Instant::now() + auth_rejection_time, on entry.
Deadline(t) == t + config.auth_rejection_time

\* Instant::now() when the packet enters dispatch: the clock's origin.
ArrivalTime == 0

server_read_encrypted(s, p, a, d) ==
  LET instant == Deadline(s.t)
      arm == MatchArm(s.state, p.op)
  IN
  IF s.state = "NotEncrypted" THEN Fail(s, "Panic")
  ELSE IF p.op = "KEXINIT"
  THEN received_rekey(s, p)
  ELSE
  CASE arm = "service" ->
         IF p.trunc THEN Fail(s, "MalformedPacket")
         ELSE IF p.service = "ssh-userauth"
         THEN LET r == server_accept_service(config.auth_banner,
                                             config.methods, s.write)
              IN  [s EXCEPT !.write = r.write, !.accepted = TRUE,
                            !.auth_request = r.auth_request,
                            !.state = "WaitingAuthRequest"]
         ELSE s
    [] arm = "auth_request" -> server_read_auth_request(instant, s, p, a, d)
    [] arm = "info_response" ->
         LET r == read_userauth_info_response(instant, s, p, a, d)
         IN  IF r.s.res = "Ok" /\ r.ok
             THEN [r.s EXCEPT !.state = "Authenticated"]
             ELSE r.s
    [] arm = "authenticated" ->
         server_read_authenticated([s EXCEPT !.state = "Authenticated"], p, a)
    [] OTHER -> s

\* ------------------------------------------------------ server/mod.rs

\* kexinit_parsed without the test of session.common.encrypted.
kexinit_parsed_on_kexinit_only(s, p) == p.op = "KEXINIT"

\* kexinit.algo.is_some() || buf[0] == msg::KEXINIT
\*   || session.common.encrypted.is_none(): the packets a KexInit in the slot
\* parses.  A KexInit in the slot has no algorithms yet: server_parse turns
\* a negotiated one into KexDh.
kexinit_parsed(s, p) == p.op = "KEXINIT" \/ s.state = "NotEncrypted"

\* kex_take that looks at the slot and leaves it as it is.
kex_take_peek(s) == s

\* session.common.kex.take()
kex_take(s) == [s EXCEPT !.kex = "None"]

\* reply: the key exchange slot first, then a rekey request, then the
\* encrypted dispatch.  sid is the session id the first key exchange derives.
\* A KexInit of a rekey this side initiated meets a packet that is not
\* KEXINIT in the last arm, with the slot already emptied.
reply(s, p, a, d, sid) ==
  LET taken == kex_take(s) IN
  CASE s.kex = "KexInit" /\ kexinit_parsed(s, p) ->
         server_parse(taken, p, TRUE)
    [] s.kex = "KexDh" -> kexdh_parse(taken, p)
    [] s.kex = "NewKeys" ->
         IF p.op # "NEWKEYS" THEN Fail(taken, "Kex")
         ELSE encrypted(taken, "WaitingServiceRequest", sid)
    [] OTHER ->
         IF p.op = "KEXINIT"
         THEN IF taken.state # "NotEncrypted"
              THEN received_rekey(taken, p)
              ELSE taken
         ELSE server_read_encrypted(taken, p, a, d)

\* One iteration of run_stream's loop on packet p: reply, and when it
\* returns Ok, session.flush().
Iteration(s, p, a, d, sid) ==
  LET r == reply(s, p, a, d, sid)
  IN  IF r.res = "Ok" THEN session_flush(r) ELSE r

\* stream.write_all(&session.common.write_buffer.buffer): everything pushed
\* goes out, in order.
Flush(s) == s.write_buffer

\* The session id the key exchange in progress derives: the exchange hash.
ExchangeHash == IF state = "NotEncrypted" THEN "sid1" ELSE "sid2"

AuthHandlers ==
  {"auth_password", "auth_publickey", "auth_keyboard_interactive"}

\* A handler decides only in the iterations that invoke one: an auth handler
\* resolves to an Auth or an error after some time, a channel handler to
\* Ok((h, session)) or an error.
Decisions(p) ==
  LET c == reply(Snapshot, p, "Accept", 0, ExchangeHash).called IN
  IF c = <<>> THEN {<<"Accept", 0>>}
  ELSE IF c[1] \in AuthHandlers THEN AuthDecisions \X (0..MaxHandlerTime)
  ELSE IF c[1] \in {"tcpip_forward", "cancel_tcpip_forward"}
  THEN {<<"Ok", 0>>, <<"Refuse", 0>>, <<"Err", 0>>}
  ELSE {<<"Ok", 0>>, <<"Err", 0>>}

\* The builds that differ on packet p: with and without overflow checks
\* where u32 arithmetic is done on a value the peer sent.
Builds(p) ==
  IF p.op = "CHANNEL_WINDOW_ADJUST" THEN BOOLEAN ELSE {FALSE}

\* Whether what this iteration writes reaches config.limits: it can once
\* the session is encrypted and holds its Exchange.
LimitsReached ==
  IF state # "NotEncrypted" /\ exchange THEN BOOLEAN ELSE {FALSE}

\* cipher::read returns packet p: an iteration of run_stream's loop begins.
ReadPacket ==
  /\ status = "running"
  /\ buffer = NoPkt
  /\ \E p \in Packets : buffer' = p
  /\ now' = ArrivalTime
  /\ sent' = <<>>
  /\ auth' = NoCall
  /\ hdur' = 0
  /\ handled' = ""
  /\ called' = <<>>
  /\ seen' = <<>>
  /\ observed' = {}
  /\ args' = <<>>
  /\ timer' = StartTimer
  /\ UNCHANGED <<config, status, err, kex, state, accepted, auth_request,
                 auth_user, exchange, session_id, write, write_buffer,
                 channels, last_channel_id, kex_session_id, shutdown,
                 client>>

\* The rest of the iteration for a packet that reaches reply: on Ok the
\* buffers are flushed and cleared, on Err run_stream returns at once.
Dispatch(P) ==
  /\ status = "running"
  /\ buffer \in P
  /\ auth_request.rejection_count < MaxRejections
  /\ \E ad \in Decisions(buffer), oc \in Builds(buffer), lim \in LimitsReached :
       \E s \in {Iteration([Snapshot EXCEPT !.overflow_checks = oc,
                                             !.limits = lim],
                            buffer, ad[1], ad[2], ExchangeHash)} :
         /\ now' = s.t
         /\ called' = s.called
         /\ seen' = s.seen
         /\ observed' = s.observed
         /\ args' = s.args
         /\ channels' = s.channels
         /\ last_channel_id' = s.last_channel_id
         /\ auth' = IF s.called = <<>> THEN NoCall ELSE ad[1]
         /\ hdur' = ad[2]
         /\ handled' = buffer.op
         /\ kex' = s.kex
         /\ state' = s.state
         /\ accepted' = s.accepted
         /\ auth_request' = s.auth_request
         /\ auth_user' = s.auth_user
         /\ exchange' = s.exchange
         /\ session_id' = s.session_id
         /\ kex_session_id' = IF s.kex = "None" THEN "" ELSE s.kex_session_id
         /\ IF s.res = "Ok"
            THEN /\ status' = "running"
                 /\ err' = ""
                 /\ sent' = Flush(s)
                 /\ write' = <<>>
                 /\ write_buffer' = <<>>
                 /\ buffer' = NoPkt
            ELSE /\ status' = IF s.res = "Panic" THEN "panicked" ELSE "failed"
                 /\ err' = s.res
                 /\ sent' = <<>>
                 /\ write' = s.write
                 /\ write_buffer' = s.write_buffer
                 /\ buffer' = buffer
  /\ UNCHANGED <<config, shutdown, timer, client>>

DispatchKex == Dispatch(KexPackets)
DispatchServiceRequest == Dispatch(ServiceRequests)
DispatchPasswordRequest == Dispatch(PasswordRequests)
DispatchPublicKeyProbe == Dispatch(ProbeRequests)
DispatchPublicKeySigned == Dispatch(SignedRequests)
DispatchKeyboardInteractive == Dispatch(KeyboardInteractiveRequests)
DispatchOtherAuthRequest == Dispatch(OtherAuthRequests)
DispatchInfoResponse == Dispatch(InfoResponses)
DispatchConnectionPacket == Dispatch(ConnectionPackets)

DispatchSessionOpen ==
  /\ last_channel_id < MaxChannelId
  /\ Dispatch(SessionOpens)

Session ==
  <<config, kex, state, accepted, auth_request, auth_user, exchange,
    session_id, write, write_buffer, channels, last_channel_id,
    kex_session_id>>

\* buffer[5] <= 4: continue, without dispatch and without a flush.
Continue ==
  /\ status = "running"
  /\ buffer \in LowPackets
  /\ buffer' = NoPkt
  /\ UNCHANGED <<status, err, sent, now, auth, hdur, called, seen, observed, args,
                 handled, shutdown, timer, client>>
  /\ UNCHANGED Session

\* buffer.len() < 5 or DISCONNECT: break, then tcp_shutdown.
Disconnect ==
  /\ status = "running"
  /\ buffer = Pkt("DISCONNECT")
  /\ status' = "closed"
  /\ shutdown' = TRUE
  /\ UNCHANGED <<buffer, err, sent, now, auth, hdur, called, seen, observed, args,
                 handled, timer, client>>
  /\ UNCHANGED Session

Init ==
  /\ config \in Configs
  /\ status = "running"
  /\ err = ""
  /\ buffer = NoPkt
  /\ kex = "KexInit"
  /\ state = "NotEncrypted"
  /\ accepted = FALSE
  /\ auth_request = NoAuthRequest
  /\ auth_user = ""
  /\ exchange = FALSE
  /\ session_id = ""
  /\ kex_session_id = ""
  /\ write = <<>>
  /\ write_buffer = <<>>
  /\ sent = <<>>
  /\ now = 0
  /\ auth = NoCall
  /\ hdur = 0
  /\ handled = ""
  /\ called = <<>>
  /\ channels = <<>>
  /\ last_channel_id = 0
  /\ seen = <<>>
  /\ observed = {}
  /\ args = <<>>
  /\ shutdown = FALSE
  /\ timer = StartTimer
  /\ client = NoClient

Next ==
  \/ ReadPacket
  \/ DispatchKex
  \/ DispatchServiceRequest
  \/ DispatchPasswordRequest
  \/ DispatchPublicKeyProbe
  \/ DispatchPublicKeySigned
  \/ DispatchKeyboardInteractive
  \/ DispatchOtherAuthRequest
  \/ DispatchInfoResponse
  \/ DispatchConnectionPacket
  \/ DispatchSessionOpen
  \/ Continue
  \/ Disconnect

Spec == Init /\ [][Next]_vars

\* ---------------------------------------------- the channel layer's runs

\* Packets of an authenticated session.
ChannelLayerPackets ==
  ChannelPackets \cup GlobalRequests \cup KexPackets \cup ConnectionPackets
    \cup {Pkt("IGNORE"), Pkt("DISCONNECT")}

\* cipher::read returns a packet of the connection protocol.
ReadChannelPacket ==
  /\ status = "running"
  /\ buffer = NoPkt
  /\ \E p \in ChannelLayerPackets : buffer' = p
  /\ now' = ArrivalTime
  /\ sent' = <<>>
  /\ auth' = NoCall
  /\ hdur' = 0
  /\ handled' = ""
  /\ called' = <<>>
  /\ seen' = <<>>
  /\ observed' = {}
  /\ args' = <<>>
  /\ timer' = StartTimer
  /\ UNCHANGED <<config, status, err, kex, state, accepted, auth_request,
                 auth_user, exchange, session_id, write, write_buffer,
                 channels, last_channel_id, kex_session_id, shutdown,
                 client>>

DispatchChannelOpen ==
  /\ last_channel_id < MaxChannelId
  /\ Dispatch(ChannelOpens)

DispatchChannelData == Dispatch(ChannelDatas)
DispatchWindowAdjust == Dispatch(WindowAdjusts)
DispatchChannelClose == Dispatch(ChannelCloses)
DispatchChannelRequest == Dispatch(ChannelRequests)
DispatchGlobalRequest == Dispatch(GlobalRequests)

\* The session when USERAUTH_SUCCESS for a password has just been written:
\* SERVICE_REQUEST and one accepted USERAUTH_REQUEST after the key exchange.
AuthenticatedInit ==
  /\ config \in Configs
  /\ status = "running"
  /\ err = ""
  /\ buffer = NoPkt
  /\ kex = "None"
  /\ state = "Authenticated"
  /\ accepted = TRUE
  /\ auth_request = [methods |-> config.methods, partial_success |-> FALSE,
                     current |-> NoCurrent, rejection_count |-> 0]
  /\ auth_user = "alice"
  /\ exchange = TRUE
  /\ session_id = "sid1"
  /\ kex_session_id = ""
  /\ write = <<>>
  /\ write_buffer = <<>>
  /\ sent = <<[op |-> "USERAUTH_SUCCESS"]>>
  /\ now = 0
  /\ auth = "Accept"
  /\ hdur = 0
  /\ handled = "USERAUTH_REQUEST"
  /\ called = <<"auth_password">>
  /\ channels = <<>>
  /\ last_channel_id = 0
  /\ seen = <<>>
  /\ observed = {}
  /\ args = <<>>
  /\ shutdown = FALSE
  /\ timer = StartTimer
  /\ client = NoClient

ChannelNext ==
  \/ ReadChannelPacket
  \/ DispatchChannelOpen
  \/ DispatchChannelData
  \/ DispatchWindowAdjust
  \/ DispatchChannelClose
  \/ DispatchChannelRequest
  \/ DispatchGlobalRequest
  \/ DispatchKex
  \/ DispatchConnectionPacket
  \/ Continue
  \/ Disconnect

ChannelSpec == AuthenticatedInit /\ [][ChannelNext]_vars

\* ------------------------------------------------------ pty-req modes

\* cipher::read returns the CHANNEL_OPEN of a session or a pty-req.
ReadPtyPacket ==
  /\ status = "running"
  /\ buffer = NoPkt
  /\ \E p \in SessionOpens \cup PtyRequests : buffer' = p
  /\ now' = ArrivalTime
  /\ sent' = <<>>
  /\ auth' = NoCall
  /\ hdur' = 0
  /\ handled' = ""
  /\ called' = <<>>
  /\ seen' = <<>>
  /\ observed' = {}
  /\ args' = <<>>
  /\ timer' = StartTimer
  /\ UNCHANGED <<config, status, err, kex, state, accepted, auth_request,
                 auth_user, exchange, session_id, write, write_buffer,
                 channels, last_channel_id, kex_session_id, shutdown,
                 client>>

DispatchPtyRequest == Dispatch(PtyRequests)

PtyNext ==
  \/ ReadPtyPacket
  \/ DispatchSessionOpen
  \/ DispatchPtyRequest

PtySpec == AuthenticatedInit /\ [][PtyNext]_vars

\* ------------------------------------------- the driver's select! and time

\* Packets of the runs that let time pass.
DriverPackets ==
  SessionOpens
    \cup { p \in ChannelDatas : p.channel = 1 /\ p.len = 1 /\ ~p.trunc }
    \cup {Pkt("IGNORE"), Pkt("DISCONNECT")}

\* What the application puts on the queue of session.receiver.
AppMessages ==
  { [msg |-> m, id |-> c] : m \in {"Data", "Eof"}, c \in {1} }

\* session.data(id, ..), session.eof(id): the packet for the channel's peer
\* is pushed when the map has the channel.
app_message(s, m) ==
  IF m.id \in DOMAIN s.channels
  THEN [s EXCEPT !.write =
          Append(@, [op |-> IF m.msg = "Data" THEN "CHANNEL_DATA"
                            ELSE "CHANNEL_EOF",
                     recipient |-> s.channels[m.id].recipient_channel])]
  ELSE s

\* cipher::read returns a packet: the first arm of select! is taken.
ReadDriverPacket ==
  /\ status = "running"
  /\ buffer = NoPkt
  /\ \E p \in DriverPackets : buffer' = p
  /\ now' = ArrivalTime
  /\ sent' = <<>>
  /\ auth' = NoCall
  /\ hdur' = 0
  /\ handled' = ""
  /\ called' = <<>>
  /\ seen' = <<>>
  /\ observed' = {}
  /\ args' = <<>>
  /\ timer' = StartTimer
  /\ UNCHANGED <<config, status, err, kex, state, accepted, auth_request,
                 auth_user, exchange, session_id, write, write_buffer,
                 channels, last_channel_id, kex_session_id, shutdown,
                 client>>

DispatchDriverPacket ==
  /\ buffer \in ChannelOpens => last_channel_id < MaxChannelId
  /\ Dispatch(DriverPackets \ {Pkt("IGNORE"), Pkt("DISCONNECT")})

\* A tick goes by while select! waits: the timer that was made when select!
\* was entered has not fired yet.
Tick ==
  /\ status = "running"
  /\ buffer = NoPkt
  /\ timer.quiet < MaxQuiet
  /\ config.connection_timeout = NoTimeout
       \/ timer.idle < config.connection_timeout
  /\ timer' = [idle |-> timer.idle + 1, quiet |-> timer.quiet + 1]
  /\ UNCHANGED <<status, err, buffer, sent, now, auth, hdur, called, seen, observed,
                 args, handled, shutdown, client>>
  /\ UNCHANGED Session

\* _ = timeout(delay) => break, then tcp_shutdown: the timer of this
\* select! fired.
Timeout ==
  /\ status = "running"
  /\ buffer = NoPkt
  /\ config.connection_timeout # NoTimeout
  /\ timer.idle = config.connection_timeout
  /\ status' = "closed"
  /\ shutdown' = TRUE
  /\ UNCHANGED <<buffer, err, sent, now, auth, hdur, called, seen, observed, args,
                 handled, timer, client>>
  /\ UNCHANGED Session

\* msg = session.receiver.recv(): the message is turned into its packet, the
\* iteration ends with flush and write_all, and the loop enters select! anew
\* with a timer of its own.
AppMessage ==
  /\ status = "running"
  /\ buffer = NoPkt
  /\ \E m \in AppMessages, lim \in LimitsReached :
       \E s \in {session_flush(app_message([Snapshot EXCEPT !.limits = lim],
                                           m))} :
         /\ sent' = Flush(s)
         /\ kex' = s.kex
         /\ exchange' = s.exchange
         /\ kex_session_id' = IF s.kex = "None" THEN "" ELSE s.kex_session_id
  /\ write' = <<>>
  /\ write_buffer' = <<>>
  /\ now' = ArrivalTime
  /\ auth' = NoCall
  /\ hdur' = 0
  /\ handled' = ""
  /\ called' = <<>>
  /\ seen' = <<>>
  /\ observed' = {}
  /\ args' = <<>>
  /\ timer' = [timer EXCEPT !.idle = 0]
  /\ UNCHANGED <<config, status, err, buffer, state, accepted, auth_request,
                 auth_user, session_id, channels, last_channel_id, shutdown,
                 client>>

DriverNext ==
  \/ ReadDriverPacket
  \/ DispatchDriverPacket
  \/ AppMessage
  \/ Tick
  \/ Timeout
  \/ Continue
  \/ Disconnect

DriverSpec == AuthenticatedInit /\ [][DriverNext]_vars

\* -------------------------------------------------- client/encrypted.rs

\* self.common.auth_method: None or the method the application queued.
ClientMethods == {"None", "Password", "PublicKey", "FuturePublicKey"}

\* What the client reads before it is authenticated.  methods is the name
\* list of USERAUTH_FAILURE, trunc cuts a packet off before its first string,
\* flag = 0 is a banner that is not UTF-8.
ClientPackets ==
  { [NoPkt EXCEPT !.op = "SERVICE_ACCEPT", !.service = sv, !.trunc = tr] :
      sv \in {"ssh-userauth", "ssh-connection"}, tr \in BOOLEAN }
    \cup { [NoPkt EXCEPT !.op = "USERAUTH_FAILURE", !.methods = ms,
                         !.trunc = tr] :
             ms \in {<<>>, <<"password">>, <<"publickey", "password">>,
                     <<"gssapi-with-mic">>},
             tr \in BOOLEAN }
    \cup { [NoPkt EXCEPT !.op = "USERAUTH_BANNER", !.flag = f, !.trunc = tr] :
             f \in {0, 1}, tr \in BOOLEAN }
    \cup { Pkt("USERAUTH_SUCCESS"), Pkt("USERAUTH_PK_OK"),
           Pkt("GLOBAL_REQUEST") }

\* The to-be-signed buffer client_make_to_sign builds.
ToSign == <<"request">>

\* What the application answers to a SignRequest: the buffer with a
\* signature appended, the buffer as it was, or another buffer of the same
\* length.
SignedBuffers == {<<"request", "signature">>, ToSign, <<"tampered">>}

\* Msg: what the application puts on the queue of session.receiver.
ClientMessages ==
  { [msg |-> "Signed", data |-> d] : d \in SignedBuffers }
    \cup { [msg |-> "Disconnect", data |-> <<>>] }

\* The client's session as client_read_encrypted passes it along.
ClientSnapshot ==
  [state |-> state, accepted |-> accepted, auth_request |-> auth_request,
   write |-> write, called |-> <<>>, res |-> "Ok",
   auth_method |-> client.auth_method, replies |-> client.replies,
   sink_open |-> client.sink_open, pc |-> client.pc, len |-> client.len,
   buffer |-> client.buffer]

\* self.sender.send(reply).map_err(|_| Error::SendError)?
send(s, r) ==
  IF s.sink_open THEN [s EXCEPT !.replies = Append(@, r)]
  ELSE Fail(s, "SendError")

\* auth::MethodSet::from_bytes over remaining_methods.split(','): the names
\* that are methods, the others are skipped.
parse_methods(names) ==
  { names[i] : i \in 1..Len(names) } \cap (AllMethods \cup {"hostbased"})

\* userauth_failure that leaves the queued method as it is.
userauth_failure_keeps_method(s, p) ==
  LET ms == parse_methods(p.methods)
      f == send([s EXCEPT !.auth_request.methods = ms], "AuthFailure")
  IN  IF f.res # "Ok" THEN f
      ELSE IF ms = {} THEN Fail(f, "NoAuthMethod") ELSE f

\* USERAUTH_FAILURE: the permitted methods become those of the packet, the
\* queued method is dropped, the application is told AuthFailure, and an
\* empty set ends the connection with NoAuthMethod.
userauth_failure(s, p) ==
  LET ms == parse_methods(p.methods)
      f == send([s EXCEPT !.auth_request.methods = ms,
                          !.auth_method = "None"], "AuthFailure")
  IN  IF f.res # "Ok" THEN f
      ELSE IF ms = {} THEN Fail(f, "NoAuthMethod") ELSE f

\* The completed USERAUTH_REQUEST: self.common.buffer[i..] as a packet.
SignedRequest(data) ==
  [op |-> "USERAUTH_REQUEST", method |-> "publickey", data |-> data]

\* buffer_modified that compares the buffers.
buffer_modified_by_content(data, length) == data # ToSign

\* self.common.buffer.len() != len
buffer_modified(data, length) == Len(data) # length

\* Some(Msg::Signed { data }) => break data, and what follows the loop: the
\* request is pushed when the buffer was modified.
signed(s, data) ==
  LET b == [s EXCEPT !.buffer = data, !.pc = "run"]
  IN  IF buffer_modified(data, s.len)
      THEN [b EXCEPT !.write = Append(@, SignedRequest(data))]
      ELSE b

\* USERAUTH_PK_OK: the queued method is taken; a PublicKey signs and pushes
\* the request, a FuturePublicKey sends SignRequest and waits in the loop on
\* self.receiver.recv().
userauth_pk_ok(s) ==
  LET c == [s EXCEPT !.auth_request.current.sent_pk_ok =
                        IF s.auth_request.current.tag = "PublicKey"
                        THEN TRUE ELSE @,
                     !.auth_method = "None"]
  IN  CASE s.auth_method = "PublicKey" ->
             [c EXCEPT !.buffer = <<>>,
                       !.write = Append(@, SignedRequest(<<"request",
                                                           "signature">>))]
        [] s.auth_method = "FuturePublicKey" ->
             LET r == send([c EXCEPT !.buffer = <<>>, !.len = Len(ToSign)],
                           [reply |-> "SignRequest", data |-> ToSign])
             IN  IF r.res # "Ok" THEN r ELSE [r EXCEPT !.pc = "signing"]
        [] OTHER -> c

\* Encrypted::write_auth_request: the USERAUTH_REQUEST of the method, a
\* probe for the two public key methods.
write_auth_request(w, meth) ==
  Append(w, [op |-> "USERAUTH_REQUEST", method |-> meth])

\* write_auth_request_if_needed: the request is written when the server
\* waits for one, that is in WaitingAuthRequest or once SERVICE_ACCEPT was
\* read; the method is queued in either case.  enc.state is not assigned.
write_auth_request_if_needed(s, meth) ==
  LET is_waiting ==
        CASE s.state = "WaitingAuthRequest" -> TRUE
          [] s.state = "WaitingServiceRequest" -> s.accepted
          [] OTHER -> FALSE
  IN  [s EXCEPT !.write = IF is_waiting THEN write_auth_request(@, meth)
                          ELSE @,
                !.auth_method = meth]

\* client_read_encrypted before the session is authenticated; a is what the
\* handler's auth_banner resolves to.
client_read_encrypted(s, p, a) ==
  CASE s.state = "WaitingServiceRequest" ->
         IF p.op # "SERVICE_ACCEPT" THEN Fail(s, "Inconsistent")
         ELSE IF p.trunc THEN Fail(s, "MalformedPacket")
         ELSE IF p.service # "ssh-userauth" THEN s
         ELSE IF s.auth_method = "None" THEN [s EXCEPT !.accepted = TRUE]
         ELSE [s EXCEPT !.accepted = TRUE,
                        !.write = write_auth_request(@, s.auth_method),
                        !.state = "WaitingAuthRequest",
                        !.auth_request =
                           [methods |-> AllMethods \cup {"hostbased"},
                            partial_success |-> FALSE,
                            current |-> NoCurrent, rejection_count |-> 0]]
    [] s.state = "WaitingAuthRequest" ->
         CASE p.op = "USERAUTH_SUCCESS" ->
                LET r == send(s, "AuthSuccess")
                IN  IF r.res # "Ok" THEN r
                    ELSE [r EXCEPT !.state = "Authenticated"]
           [] p.op = "USERAUTH_BANNER" ->
                IF p.trunc THEN Fail(s, "MalformedPacket")
                ELSE IF p.flag = 0 THEN s
                ELSE [s EXCEPT !.called = Append(@, "auth_banner"),
                               !.res = IF a = "Err" THEN "HandlerError" ELSE @]
           [] p.op = "USERAUTH_FAILURE" ->
                IF p.trunc THEN Fail(s, "MalformedPacket")
                ELSE userauth_failure(s, p)
           [] p.op = "USERAUTH_PK_OK" -> userauth_pk_ok(s)
           [] OTHER -> Fail(s, "Inconsistent")
    [] OTHER -> s

\* The client after its first key exchange, with the method the application
\* asked to authenticate with (or none yet) and SERVICE_REQUEST sent.
ClientInit ==
  /\ config \in {c \in Configs : c.connection_timeout = NoTimeout}
  /\ status = "running"
  /\ err = ""
  /\ buffer = NoPkt
  /\ kex = "None"
  /\ state = "WaitingServiceRequest"
  /\ accepted = FALSE
  /\ auth_request = NoAuthRequest
  /\ auth_user = "alice"
  /\ exchange = TRUE
  /\ session_id = "sid1"
  /\ kex_session_id = ""
  /\ write = <<>>
  /\ write_buffer = <<>>
  /\ sent = <<>>
  /\ now = 0
  /\ auth = NoCall
  /\ hdur = 0
  /\ handled = ""
  /\ called = <<>>
  /\ channels = <<>>
  /\ last_channel_id = 0
  /\ seen = <<>>
  /\ observed = {}
  /\ args = <<>>
  /\ shutdown = FALSE
  /\ timer = StartTimer
  /\ \E m \in ClientMethods :
       client = [role |-> "client", auth_method |-> m, replies |-> <<>>,
                 sink_open |-> TRUE, receiver |-> <<>>, closed |-> FALSE,
                 dropped |-> {}, pc |-> "run", len |-> 0, buffer |-> <<>>,
                 spinning |-> FALSE]

\* What the client's actions leave alone.
ServerOnly ==
  <<config, kex, auth_user, exchange, session_id, kex_session_id, now, auth,
    hdur, seen, observed, args, channels, last_channel_id, shutdown, timer>>

\* The client's driver reads a packet; what the iteration before told the
\* application and dropped is forgotten.
ClientReadPacket ==
  /\ status = "running"
  /\ buffer = NoPkt
  /\ client.pc = "run"
  /\ state # "Authenticated"
  /\ \E p \in ClientPackets : buffer' = p
  /\ sent' = <<>>
  /\ handled' = ""
  /\ called' = <<>>
  /\ client' = [client EXCEPT !.replies = <<>>, !.dropped = {}]
  /\ UNCHANGED <<status, err, state, accepted, auth_request, write,
                 write_buffer>>
  /\ UNCHANGED ServerOnly

\* The end of an iteration whose client_read_encrypted returned s, the
\* queue and the rest of the client being as in q: on Ok the pushed packets
\* are written, on Err the driver returns.
ClientEnd(s, q) ==
  /\ state' = s.state
  /\ accepted' = s.accepted
  /\ auth_request' = s.auth_request
  /\ client' = [q EXCEPT !.auth_method = s.auth_method,
                         !.replies = s.replies, !.pc = s.pc,
                         !.len = s.len, !.buffer = s.buffer]
  /\ IF s.res # "Ok"
     THEN /\ status' = "failed"
          /\ err' = s.res
          /\ sent' = <<>>
          /\ write' = s.write
          /\ buffer' = buffer
     ELSE IF s.pc = "signing"
     THEN /\ sent' = <<>>
          /\ write' = s.write
          /\ buffer' = buffer
          /\ UNCHANGED <<status, err>>
     ELSE /\ sent' = s.write
          /\ write' = <<>>
          /\ buffer' = NoPkt
          /\ UNCHANGED <<status, err>>
  /\ UNCHANGED write_buffer
  /\ UNCHANGED ServerOnly

\* client_read_encrypted on the packet read, up to its return or to the
\* wait for Signed.
ClientDispatch ==
  /\ status = "running"
  /\ buffer \in ClientPackets
  /\ client.pc = "run"
  /\ \E a \in {"Ok", "Err"} :
       \E s \in {client_read_encrypted(ClientSnapshot, buffer, a)} :
         /\ s.called = <<>> => a = "Ok"
         /\ called' = s.called
         /\ handled' = buffer.op
         /\ ClientEnd(s, client)

\* self.receiver.recv().await in the loop of USERAUTH_PK_OK yields a
\* message: Signed ends the wait, `_ => {}` lets go of any other.
RecvWhileSigning ==
  /\ status = "running"
  /\ client.pc = "signing"
  /\ client.receiver # <<>>
  /\ LET m == Head(client.receiver)
         q == [client EXCEPT !.receiver = Tail(@)]
     IN  IF m.msg = "Signed"
         THEN \E s \in {signed(ClientSnapshot, m.data)} :
                /\ ClientEnd(s, q)
                /\ UNCHANGED <<called, handled>>
         ELSE /\ client' = [q EXCEPT !.dropped = @ \cup {m}]
              /\ UNCHANGED <<status, err, buffer, state, accepted,
                             auth_request, write, write_buffer, sent, called,
                             handled>>
              /\ UNCHANGED ServerOnly

\* The same recv() yields None, the queue being closed and empty: `_ => {}`
\* again, and the loop goes on.
RecvNone ==
  /\ status = "running"
  /\ client.pc = "signing"
  /\ client.receiver = <<>>
  /\ client.closed
  /\ ~client.spinning
  /\ client' = [client EXCEPT !.spinning = TRUE]
  /\ UNCHANGED <<status, err, buffer, state, accepted, auth_request, write,
                 write_buffer, sent, called, handled>>
  /\ UNCHANGED ServerOnly

\* The application puts a message on the queue.
AppSend ==
  /\ status = "running"
  /\ ~client.closed
  /\ Len(client.receiver) < MaxQueue
  /\ \E m \in ClientMessages :
       client' = [client EXCEPT !.receiver = Append(@, m)]
  /\ UNCHANGED <<status, err, buffer, state, accepted, auth_request, write,
                 write_buffer, sent, called, handled>>
  /\ UNCHANGED ServerOnly

\* The application drops its handle: the queue is closed and the replies
\* have no receiver.
AppClose ==
  /\ status = "running"
  /\ ~client.closed
  /\ client' = [client EXCEPT !.closed = TRUE, !.sink_open = FALSE]
  /\ UNCHANGED <<status, err, buffer, state, accepted, auth_request, write,
                 write_buffer, sent, called, handled>>
  /\ UNCHANGED ServerOnly

\* The application asks to authenticate with a method: the driver calls
\* write_auth_request_if_needed and flushes.
ClientAuthenticate ==
  /\ status = "running"
  /\ buffer = NoPkt
  /\ client.pc = "run"
  /\ ~client.closed
  /\ \E m \in ClientMethods \ {"None"} :
       \E s \in {write_auth_request_if_needed(ClientSnapshot, m)} :
         /\ client' = [client EXCEPT !.auth_method = s.auth_method,
                                     !.replies = <<>>, !.dropped = {}]
         /\ sent' = s.write
         /\ write' = <<>>
  /\ handled' = ""
  /\ called' = <<>>
  /\ UNCHANGED <<status, err, buffer, state, accepted, auth_request,
                 write_buffer>>
  /\ UNCHANGED ServerOnly

ClientNext ==
  \/ ClientAuthenticate
  \/ ClientReadPacket
  \/ ClientDispatch
  \/ RecvWhileSigning
  \/ RecvNone
  \/ AppSend
  \/ AppClose

ClientSpec == ClientInit /\ [][ClientNext]_vars

\* A step in which client_read_encrypted is given the packet op while the
\* client waits for the answer to its USERAUTH_REQUEST.
ClientHandles(op) ==
  /\ client.role = "client"
  /\ client.pc = "run"
  /\ state = "WaitingAuthRequest"
  /\ buffer.op = op
  /\ ~buffer.trunc
  /\ handled = ""
  /\ handled' = op

\* C26: a well-formed USERAUTH_FAILURE read in WaitingAuthRequest, the
\* application listening to the replies, replaces the permitted methods by
\* the methods the packet names, drops the queued method and tells the
\* application AuthFailure; with no method left the connection fails with
\* NoAuthMethod, otherwise the client stays in WaitingAuthRequest and no
\* error is raised.
C26_UserauthFailure ==
  [][(ClientHandles("USERAUTH_FAILURE") /\ client.sink_open)
       => /\ auth_request'.methods
               = { buffer.methods[i] : i \in 1..Len(buffer.methods) }
                   \cap {"none", "password", "publickey", "hostbased",
                         "keyboard-interactive"}
          /\ client'.auth_method = "None"
          /\ client'.replies = <<"AuthFailure">>
          /\ state' = "WaitingAuthRequest"
          /\ IF auth_request'.methods = {}
             THEN status' = "failed" /\ err' = "NoAuthMethod"
             ELSE status' = "running" /\ err' = ""]_vars

\* A USERAUTH_FAILURE naming password was handled: the client goes on, with
\* no method queued and the application told.
C26_Witness ==
  /\ client.role = "client"
  /\ handled = "USERAUTH_FAILURE"
  /\ status = "running"
  /\ state = "WaitingAuthRequest"
  /\ auth_request.methods = {"password"}
  /\ client.auth_method = "None"
  /\ client.replies = <<"AuthFailure">>

\* The application is asked once to sign, and nothing goes out while the
\* client waits for the answer.
SignRequestOnce ==
  /\ (ClientHandles("USERAUTH_PK_OK") /\ client.sink_open
        /\ client.auth_method = "FuturePublicKey")
       => /\ client'.replies = <<[reply |-> "SignRequest", data |-> ToSign]>>
          /\ client'.pc = "signing"
          /\ sent' = <<>>
  /\ (client.role = "client" /\ client.pc = "signing"
        /\ client'.pc = "signing")
       => /\ sent' = sent
          /\ write' = write
          /\ client'.replies = client.replies

\* The step in which Signed arrives.
SignedArrives ==
  /\ client.role = "client"
  /\ client.pc = "signing"
  /\ client'.pc = "run"

C28_NoMessageDropped == client.role = "client" => client.dropped = {}

\* C28, second half: the wait for Signed does not go on once the queue is
\* closed and empty.
C28_WaitEndsOnClose == client.role = "client" => ~client.spinning

\* ------------------------------------------------------------- properties

\* The packet in buffer is dispatched by the auth protocol in this step: it
\* reaches server_read_encrypted in WaitingAuthRequest.
AuthDispatch ==
  /\ status = "running"
  /\ kex = "None"
  /\ state = "WaitingAuthRequest"
  /\ buffer \in AuthRequests \cup InfoResponses

\* The dispatch ran to its end: reply returned Ok and the buffers were flushed.
Completed == status' = "running"

\* The flush of this step initiated a rekey: the Exchange left its slot for a
\* KexInit of this side.
RekeyInitiated == exchange /\ ~exchange' /\ kex' = "KexInit"

\* q without the KEXINIT that a flush initiating a rekey wrote after it: what
\* the dispatch itself put on the stream.
Answered(q) ==
  IF RekeyInitiated /\ q # <<>> /\ q[Len(q)].op = "KEXINIT"
  THEN SubSeq(q, 1, Len(q) - 1)
  ELSE q

IsOp(m, o) == m.op = o
Count(q, o) == Cardinality({i \in 1..Len(q) : IsOp(q[i], o)})

\* The USERAUTH_FAILURE of auth request ar.
Failure(ar) ==
  [op |-> "USERAUTH_FAILURE", methods |-> ar.methods,
   partial |-> IF ar.partial_success THEN 1 ELSE 0]

\* The rejection discipline, between the state before and after a step.
Rejection ==
  /\ Answered(sent') = <<Failure(auth_request')>>
  /\ auth_request'.current = NoCurrent
  /\ auth_request'.rejection_count = auth_request.rejection_count + 1
  /\ state' = "WaitingAuthRequest"

Rank(st) ==
  CASE st = "NotEncrypted" -> 0
    [] st = "WaitingServiceRequest" -> 1
    [] st = "WaitingAuthRequest" -> 2
    [] st = "Authenticated" -> 3

\* C1: the server's EncryptedState only moves forward along
\* WaitingServiceRequest -> WaitingAuthRequest -> Authenticated, whatever is
\* received and whatever the handlers decide, rekeys included; once
\* Authenticated it stays Authenticated.
C1_StateMonotone == [][Rank(state') >= Rank(state)]_vars

\* A packet was dispatched, and answered, in Authenticated.
C1_Witness ==
  /\ state = "Authenticated"
  /\ sent = <<[op |-> "REQUEST_FAILURE"]>>

SignedDispatch ==
  /\ AuthDispatch
  /\ buffer \in SignedRequests
  /\ PublicKey_parse(buffer.algo, buffer.key) = "Ok"

\* The request in buffer continues an accepted probe of the same user, or is
\* the first contact of a connection with no auth user and the handler
\* accepts the key in this step.
C2_Entitled ==
  \/ /\ auth_request.current.tag = "PublicKey"
     /\ auth_request.current.sent_pk_ok
     /\ buffer.user = auth_user
  \/ /\ auth_user = ""
     /\ called' = <<"auth_publickey">>
     /\ auth' = "Accept"

\* The signature is by the request's key over string(session_id) followed by
\* the packet up to the signature.
C2_Verifies ==
  /\ buffer.sig.key = buffer.key
  /\ buffer.sig.data = <<session_id, InitBytes(buffer)>>

\* C2: a signed publickey request yields USERAUTH_SUCCESS and Authenticated
\* only if it is entitled (probe accepted for this user, or first contact
\* accepted by the handler) and its signature verifies; every other outcome
\* that the dispatch completes is a rejection that stays in
\* WaitingAuthRequest.
C2_SignedRequest ==
  [][(SignedDispatch /\ Completed) =>
       IF C2_Entitled /\ C2_Verifies
       THEN Answered(sent') = <<[op |-> "USERAUTH_SUCCESS"]>> /\ state' = "Authenticated"
       ELSE Rejection /\ Count(sent', "USERAUTH_SUCCESS") = 0]_vars

\* A signed request was accepted on the strength of an earlier probe: no
\* handler ran in the iteration that authenticated.
C2_Witness ==
  /\ state = "Authenticated"
  /\ sent = <<[op |-> "USERAUTH_SUCCESS"]>>
  /\ called = <<>>

\* C3: a USERAUTH_FAILURE reaches the transport no earlier than the deadline
\* fixed when its request entered dispatch, arrival + auth_rejection_time.
C3_RejectionNotEarly ==
  Count(sent, "USERAUTH_FAILURE") > 0
    => now >= ArrivalTime + config.auth_rejection_time

\* A rejection whose handler answered at once was held back to the deadline.
C3_Witness ==
  /\ Count(sent, "USERAUTH_FAILURE") > 0
  /\ called # <<>>
  /\ hdur = 0
  /\ now = ArrivalTime + config.auth_rejection_time

\* C4: when the handler took longer than auth_rejection_time, the rejection
\* is complete at the moment the handler returned.
C4_SlowHandlerNoExtraDelay ==
  (/\ Count(sent, "USERAUTH_FAILURE") > 0
   /\ called # <<>>
   /\ hdur > config.auth_rejection_time)
    => now = ArrivalTime + hdur

C4_Witness ==
  /\ Count(sent, "USERAUTH_FAILURE") > 0
  /\ called = <<"auth_password">>
  /\ hdur > config.auth_rejection_time

\* The step takes one of the reject paths: the handler refuses a password, a
\* probe or a keyboard-interactive request, a signed request is not entitled
\* or does not verify, the key is unreadable, the method is none of the
\* three, or an info response comes with no keyboard-interactive request.
C5_RejectPath ==
  /\ AuthDispatch
  /\ Completed
  /\ \/ /\ buffer \in PasswordRequests
        /\ auth' # "Accept"
     \/ /\ buffer \in ProbeRequests
        /\ PublicKey_parse(buffer.algo, buffer.key) = "Ok"
        /\ auth' # "Accept"
     \/ /\ SignedDispatch
        /\ ~(C2_Entitled /\ C2_Verifies)
     \/ /\ buffer \in ProbeRequests \cup SignedRequests
        /\ PublicKey_parse(buffer.algo, buffer.key) = "CouldNotReadKey"
     \/ /\ buffer \in KeyboardInteractiveRequests
        /\ auth' = "Reject"
     \/ buffer \in OtherAuthRequests
     \/ /\ buffer \in InfoResponses
        /\ \/ auth_request.current.tag # "KeyboardInteractive"
           \/ auth' = "Reject"

\* C5: every reject path appends exactly one USERAUTH_FAILURE with the
\* remaining methods and the partial_success flag, clears the current
\* request, adds one to rejection_count and stays in WaitingAuthRequest.
C5_RejectionDiscipline == [][C5_RejectPath => Rejection]_vars

\* Two rejections in a row, the second of a request no handler saw.
C5_Witness ==
  /\ Count(sent, "USERAUTH_FAILURE") = 1
  /\ called = <<>>
  /\ auth_request.rejection_count = 2
  /\ state = "WaitingAuthRequest"

\* C6: once rejection_count has reached max_auth_attempts, no further
\* request of the connection reaches a handler and the session cannot
\* become Authenticated.
C6_AttemptsLimited ==
  [][(AuthDispatch
      /\ auth_request.rejection_count >= config.max_auth_attempts)
       => (called' = <<>> /\ state' # "Authenticated")]_vars

PasswordDispatch ==
  /\ AuthDispatch
  /\ buffer \in PasswordRequests
  /\ buffer.service = "ssh-connection"
  /\ called' = <<"auth_password">>

\* C7: a password request for ssh-connection that the handler accepts
\* appends exactly one USERAUTH_SUCCESS and nothing else, moves to
\* Authenticated and leaves rejection_count alone.
C7_PasswordAccept ==
  [][(PasswordDispatch /\ auth' = "Accept") =>
       /\ Completed
       /\ Answered(sent') = <<[op |-> "USERAUTH_SUCCESS"]>>
       /\ state' = "Authenticated"
       /\ auth_request'.rejection_count = auth_request.rejection_count]_vars

C7_Witness ==
  /\ state = "Authenticated"
  /\ called = <<"auth_password">>
  /\ auth = "Accept"
  /\ sent = <<[op |-> "USERAUTH_SUCCESS"]>>

\* C8: a password request that the handler answers with anything but Accept
\* removes password from the permitted methods, clears the auth user and is
\* rejected with the methods without password and partial_success = 0.
C8_PasswordRefused ==
  [][(PasswordDispatch /\ auth' \in AuthDecisions \ {"Accept", "Err"}) =>
       /\ Rejection
       /\ auth_request'.methods = auth_request.methods \ {"password"}
       /\ auth_user' = ""
       /\ Answered(sent') = <<[op |-> "USERAUTH_FAILURE",
                     methods |-> auth_request.methods \ {"password"},
                     partial |-> 0]>>]_vars

\* The handler refused a password while password was still permitted.
C8_Witness ==
  /\ called = <<"auth_password">>
  /\ auth = "Reject"
  /\ Count(sent, "USERAUTH_FAILURE") = 1
  /\ auth_request.rejection_count = 1
  /\ "password" \notin auth_request.methods
  /\ auth_user = ""

\* C9: a password request whose "change password" byte is not 0 never
\* produces USERAUTH_SUCCESS and never authenticates.
C9_ChangePasswordRefused ==
  [][(AuthDispatch /\ buffer \in PasswordRequests /\ buffer.flag # 0) =>
       /\ Count(sent', "USERAUTH_SUCCESS") = 0
       /\ state' # "Authenticated"]_vars

ProbeDispatch ==
  /\ AuthDispatch
  /\ buffer \in ProbeRequests
  /\ ~buffer.trunc
  /\ PublicKey_parse(buffer.algo, buffer.key) = "Ok"

\* C10: a probe with a readable key that the handler accepts is answered by
\* USERAUTH_PK_OK with the request's algorithm and key, is remembered as
\* CurrentRequest::PublicKey with sent_pk_ok, and stays in
\* WaitingAuthRequest with no USERAUTH_SUCCESS; a probe the handler does not
\* accept is rejected.
C10_Probe ==
  [][ProbeDispatch =>
       /\ called' = <<"auth_publickey">>
       /\ (auth' = "Accept") =>
            /\ Completed
            /\ Answered(sent') = <<[op |-> "USERAUTH_PK_OK", algo |-> buffer.algo,
                          key |-> buffer.key]>>
            /\ auth_request'.current =
                 [tag |-> "PublicKey", key |-> buffer.key,
                  algo |-> buffer.algo, sent_pk_ok |-> TRUE, submethods |-> ""]
            /\ auth_request'.rejection_count = auth_request.rejection_count
            /\ state' = "WaitingAuthRequest"
       /\ (auth' \in AuthDecisions \ {"Accept", "Err"}) => Rejection]_vars

C10_Witness ==
  /\ state = "WaitingAuthRequest"
  /\ called = <<"auth_publickey">>
  /\ auth = "Accept"
  /\ Len(sent) = 1
  /\ sent[1].op = "USERAUTH_PK_OK"
  /\ auth_request.current.sent_pk_ok
  /\ sent[1].key = auth_request.current.key

\* A publickey request, probe or signed, whose key blob key::PublicKey::parse
\* cannot read.
UnreadableKeyDispatch ==
  /\ AuthDispatch
  /\ buffer \in ProbeRequests \cup SignedRequests
  /\ ~buffer.trunc
  /\ PublicKey_parse(buffer.algo, buffer.key) = "CouldNotReadKey"

C12_OnlyServiceRequestLegal ==
  [][(/\ status = "running"
      /\ kex = "None"
      /\ state = "WaitingServiceRequest"
      /\ buffer \in AuthRequests \cup InfoResponses \cup ConnectionPackets)
       => status' = "failed"]_vars

\* The packet in buffer reaches server_read_authenticated in this step.
ChannelDispatch ==
  /\ status = "running"
  /\ kex = "None"
  /\ state = "Authenticated"
  /\ buffer \in ChannelPackets

\* C13: CHANNEL_OPEN of a type other than session, x11 and direct-tcpip is
\* answered by exactly CHANNEL_OPEN_FAILURE to the sender's id with reason
\* 3; the channel map is unchanged, there is no CHANNEL_OPEN_CONFIRMATION
\* and no handler is invoked.
C13_UnknownChannelType ==
  [][(/\ ChannelDispatch
      /\ buffer \in ChannelOpens
      /\ buffer.typ \notin {"session", "x11", "direct-tcpip"})
       => /\ Completed
          /\ Answered(sent') = <<[op |-> "CHANNEL_OPEN_FAILURE",
                        recipient |-> buffer.sender, reason |-> 3,
                        description |-> "Unknown channel type",
                        language |-> "en"]>>
          /\ channels' = channels
          /\ called' = <<>>]_vars

\* An open of an unknown type was refused while a channel was open.
C13_Witness ==
  /\ Len(sent) = 1
  /\ sent[1].op = "CHANNEL_OPEN_FAILURE"
  /\ sent[1].reason = 3
  /\ DOMAIN channels = {1}
  /\ last_channel_id = 2

\* Data for a channel of the map is dispatched in this step.
DataDispatch ==
  /\ ChannelDispatch
  /\ buffer \in ChannelDatas
  /\ ~buffer.trunc
  /\ buffer.channel \in DOMAIN channels

DataHandler ==
  IF buffer.op = "CHANNEL_DATA" THEN "data" ELSE "extended_data"

\* The local window of the channel in buffer after w bytes are left: below
\* half of window_size it is restored by a CHANNEL_WINDOW_ADJUST that the
\* handler already sees pushed, otherwise it is w and nothing is pushed.
WindowAfter(w) ==
  LET c == channels[buffer.channel] IN
  /\ called' = <<DataHandler>>
  /\ args' = <<buffer.channel, buffer.len>>
  /\ IF 2 * w < config.window_size
     THEN /\ channels'[buffer.channel].sender_window_size = config.window_size
          /\ Answered(seen') = <<[op |-> "CHANNEL_WINDOW_ADJUST",
                        recipient |-> c.recipient_channel,
                        amount |-> config.window_size - w]>>
     ELSE /\ channels'[buffer.channel].sender_window_size = w
          /\ Answered(seen') = <<>>
  /\ Completed => Answered(sent') = Answered(seen')

C15_DataWrongChannel ==
  [][(/\ ChannelDispatch
      /\ buffer \in ChannelDatas
      /\ ~buffer.trunc
      /\ buffer.channel \notin DOMAIN channels
      /\ auth' # "Err")
       => /\ status' = "failed"
          /\ err' = "WrongChannel"
          /\ called' = <<>>]_vars

AdjustDispatch ==
  /\ ChannelDispatch
  /\ buffer \in WindowAdjusts
  /\ ~buffer.trunc

\* a < b as u32.
Less32(a, b) == a.hi < b.hi \/ (a.hi = b.hi /\ a.lo < b.lo)

\* C16: CHANNEL_WINDOW_ADJUST for a channel of the map adds amount to its
\* remote window, changes no other channel and invokes window_adjusted with
\* the new value; for an id that is not in the map it fails with
\* WrongChannel, no handler, no change.
C16_WindowAdjust ==
  [][(AdjustDispatch /\ auth' # "Err") =>
       IF buffer.channel \in DOMAIN channels
       THEN LET r == Add32(channels[buffer.channel].recipient_window_size,
                           buffer.amount)
            IN  /\ ~r.overflow
                /\ channels' = [channels EXCEPT
                      ![buffer.channel].recipient_window_size = r.sum]
                /\ called' = <<"window_adjusted">>
                /\ args' = <<buffer.channel, r.sum>>
       ELSE /\ status' = "failed"
            /\ err' = "WrongChannel"
            /\ called' = <<>>
            /\ channels' = channels]_vars

\* C17: after an adjust the remote window is the sum of the old value and
\* the amount: the session has not aborted and the window is not smaller
\* than before.
C17_WindowNeverWraps ==
  [][(AdjustDispatch /\ buffer.channel \in DOMAIN channels /\ auth' # "Err")
       => /\ status' # "panicked"
          /\ ~Less32(channels'[buffer.channel].recipient_window_size,
                     channels[buffer.channel].recipient_window_size)]_vars

\* A KEXINIT of the peer is dispatched on an encrypted session in this step.
RekeyRequest ==
  /\ status = "running"
  /\ state # "NotEncrypted"
  /\ buffer.op = "KEXINIT"

\* C18: at most one key exchange is in flight.  A KEXINIT received while no
\* rekey is pending moves the Exchange out of the encrypted state into exactly
\* one new key exchange, answered by one KEXINIT; a KEXINIT received while a
\* rekey is pending starts no second one: the Exchange stays taken, no
\* KEXINIT is written, and the slot keeps its key exchange (a KexInit of this
\* side moves on to KexDh).  The Exchange is never both in the encrypted
\* state and in a key exchange.
C18_OneKexInFlight ==
  [][/\ (RekeyRequest /\ exchange /\ kex = "None")
          => /\ Completed
             /\ kex' = "KexDh"
             /\ ~exchange'
             /\ sent' = <<[op |-> "KEXINIT"]>>
     /\ (RekeyRequest /\ ~exchange)
          => /\ ~exchange'
             /\ Count(sent', "KEXINIT") = 0
             /\ \/ kex' = kex
                \/ kex = "KexInit" /\ kex' = "KexDh"
                \/ kex = "NewKeys" /\ kex' = "None" /\ status' = "failed"
     /\ (state' # "NotEncrypted" /\ kex' # "None") => ~exchange']_vars

\* The peer's KEXINIT started a rekey on an authenticated session with an
\* open channel.
C18_Witness ==
  /\ status = "running"
  /\ handled = "KEXINIT"
  /\ state = "Authenticated"
  /\ kex = "KexDh"
  /\ ~exchange
  /\ sent = <<[op |-> "KEXINIT"]>>
  /\ DOMAIN channels # {}

\* A packet reaches reply in this step while the slot holds a key exchange.
KexSlotDispatch ==
  /\ status = "running"
  /\ kex # "None"
  /\ buffer # NoPkt
  /\ buffer \notin LowPackets
  /\ buffer.op # "DISCONNECT"

\* The step left auth and channel logic and the handler alone: nothing but
\* key exchange packets were written, and the encrypted state changed only
\* by the first NEWKEYS installing it.
NotDispatched ==
  /\ called' = <<>>
  /\ auth_request' = auth_request
  /\ auth_user' = auth_user
  /\ channels' = channels
  /\ last_channel_id' = last_channel_id
  /\ \/ state' = state /\ accepted' = accepted
     \/ state = "NotEncrypted" /\ kex = "NewKeys" /\ buffer.op = "NEWKEYS"
  /\ \A i \in 1..Len(sent') :
       sent'[i].op \in {"KEXINIT", "KEX_ECDH_REPLY", "NEWKEYS"}

\* The key exchange in the slot parsed the packet: the slot holds what it
\* returned.
GivenToKex ==
  CASE kex = "KexInit" ->
         Completed /\ kex' = IF buffer.op = "KEXINIT" THEN "KexDh" ELSE "KexInit"
    [] kex = "KexDh" ->
         Completed
           /\ kex' = IF buffer.op = "KEX_ECDH_INIT" THEN "NewKeys" ELSE "KexDh"
    [] OTHER ->
         IF buffer.op = "NEWKEYS"
         THEN Completed /\ kex' = "None"
         ELSE status' = "failed" /\ err' = "Kex"

OwnKexInitUnanswered ==
  kex = "KexInit" /\ state # "NotEncrypted" /\ buffer.op # "KEXINIT"

RekeyStep ==
  /\ status = "running"
  /\ state # "NotEncrypted"
  /\ buffer # NoPkt
  /\ buffer \notin LowPackets
  /\ buffer.op # "DISCONNECT"
  /\ kex \in {"KexDh", "NewKeys"} \/ buffer.op = "KEXINIT"

\* The encrypted state is as it was: state variant, auth sub-state, session
\* id and channel map.
EncryptedKept ==
  /\ state' = state
  /\ accepted' = accepted
  /\ auth_request' = auth_request
  /\ auth_user' = auth_user
  /\ session_id' = session_id
  /\ channels' = channels
  /\ last_channel_id' = last_channel_id

\* C20: the NEWKEYS that completes a rekey empties the slot, gives the
\* Exchange back and leaves the encrypted state, the auth sub-state and the
\* channel map as they were, and so does every step of the rekey before it:
\* an Authenticated session is Authenticated after the rekey, not
\* WaitingServiceRequest.
C20_RekeyKeepsState ==
  [][/\ RekeyStep => EncryptedKept
     /\ (RekeyStep /\ kex = "NewKeys" /\ buffer.op = "NEWKEYS")
          => /\ Completed
             /\ kex' = "None"
             /\ exchange'
             /\ called' = <<>>]_vars

\* A rekey completed on an authenticated session with an open channel.
C20_Witness ==
  /\ status = "running"
  /\ handled = "NEWKEYS"
  /\ state = "Authenticated"
  /\ kex = "None"
  /\ exchange
  /\ DOMAIN channels # {}

\* C21: once the first key exchange has completed, no step changes the
\* session id, whatever number of rekeys either side starts, and every key
\* exchange in the slot of an encrypted session carries that session id
\* rather than one of its own.
C21_SessionIdConstant ==
  [][/\ state # "NotEncrypted" => session_id' = session_id
     /\ (state' # "NotEncrypted" /\ kex' # "None")
          => kex_session_id' = session_id']_vars

\* A rekey the peer started has completed and the session id is the one of
\* the first key exchange, not the hash of the second.
C21_Witness ==
  /\ status = "running"
  /\ handled = "NEWKEYS"
  /\ state = "WaitingAuthRequest"
  /\ kex = "None"
  /\ session_id = "sid1"
  /\ accepted

\* C22: when the dispatch of a packet fails, everything that is in the write
\* buffer at that point has been written to the stream and the stream has
\* been shut down by the time run_stream returns the error.
C22_FailureFlushesAndShutsDown ==
  [][(status = "running" /\ status' = "failed")
       => /\ shutdown'
          /\ write' = <<>>
          /\ write_buffer' = <<>>]_vars

\* C30: a USERAUTH_REQUEST whose method is not in the still-permitted set of
\* the AuthRequest invokes no handler method and does not authenticate.
C30_MethodPermitted ==
  [][(/\ AuthDispatch
      /\ buffer \in AuthRequests
      /\ buffer.method \notin auth_request.methods)
       => /\ called' = <<>>
          /\ state' # "Authenticated"
          /\ Count(sent', "USERAUTH_SUCCESS") = 0]_vars

\* C29: a signed publickey request authenticates only a (user, key) pair the
\* handler's auth_publickey accepted on this connection: in this step, or at
\* the probe whose key the AuthRequest still holds for this user.
C29_OnlyAcceptedKeyAuthenticates ==
  [][(/\ AuthDispatch
      /\ buffer \in SignedRequests
      /\ state' = "Authenticated")
       => \/ called' = <<"auth_publickey">> /\ auth' = "Accept"
          \/ /\ auth_request.current.tag = "PublicKey"
             /\ auth_request.current.key = buffer.key
             /\ auth_user = buffer.user]_vars

\* C24: a CHANNEL_REQUEST of a name without an arm of its own is answered
\* by CHANNEL_FAILURE if and only if want_reply is set; with want_reply = 0
\* nothing is written; in both cases no handler is invoked.
C24_UnknownChannelRequest ==
  [][(/\ ChannelDispatch
      /\ buffer \in ChannelRequests
      /\ buffer.name \notin DOMAIN RequestHandlers)
       => /\ Completed
          /\ called' = <<>>
          /\ Answered(sent') = IF buffer.flag # 0
                               THEN <<[op |-> "CHANNEL_FAILURE"]>>
                               ELSE <<>>]_vars

\* C25: a GLOBAL_REQUEST whose name is neither tcpip-forward nor
\* cancel-tcpip-forward is answered by REQUEST_FAILURE if and only if its
\* want_reply byte is not zero.
C25_UnknownGlobalRequest ==
  [][(/\ status = "running"
      /\ kex = "None"
      /\ state = "Authenticated"
      /\ buffer \in GlobalRequests \cup ConnectionPackets
      /\ buffer.op = "GLOBAL_REQUEST"
      /\ buffer.name \notin {"tcpip-forward", "cancel-tcpip-forward"})
       => /\ Completed
          /\ Answered(sent') = IF buffer.flag # 0
                               THEN <<[op |-> "REQUEST_FAILURE"]>>
                               ELSE <<>>]_vars

\* C23: a running session with a connection_timeout has never been without
\* a packet of the peer for longer than connection_timeout, whatever the
\* application submits meanwhile.
C23_IdleTimeoutFromLastInbound ==
  (status = "running" /\ config.connection_timeout # NoTimeout)
    => timer.quiet <= config.connection_timeout

\* The packets of the connection protocol the server reads before it is
\* authenticated.
ConnectionOps == {"CHANNEL_OPEN", "CHANNEL_SUCCESS", "GLOBAL_REQUEST"}

\* C31: before the state is Authenticated the channel map is empty and only
\* authentication handlers are invoked; a CHANNEL_* or GLOBAL_REQUEST packet
\* dispatched in WaitingServiceRequest or WaitingAuthRequest creates no
\* channel, invokes no handler, emits nothing and leaves the state as it is.
C31_NoChannelsBeforeAuthenticated ==
  [][/\ state' # "Authenticated"
          => /\ channels' = <<>>
             /\ \A i \in 1..Len(called') : called'[i] \in AuthHandlers
     /\ (/\ state \in {"WaitingServiceRequest", "WaitingAuthRequest"}
         /\ handled = ""
         /\ handled' \in ConnectionOps)
          => /\ channels' = <<>>
             /\ last_channel_id' = last_channel_id
             /\ called' = <<>>
             /\ Answered(sent') = <<>>
             /\ state' = state]_vars

\* A CHANNEL_OPEN was dispatched in WaitingAuthRequest and the session goes
\* on without a channel.
C31_Witness ==
  /\ handled = "CHANNEL_OPEN"
  /\ kex = "None"
  /\ state = "WaitingAuthRequest"
  /\ status = "running"
  /\ channels = <<>>
  /\ sent = <<>>

\* C32: whenever the client has emitted a USERAUTH_REQUEST its state is
\* WaitingAuthRequest, so that the server's answer is processed.
C32_RequestedMeansWaiting ==
  [][(/\ client.role = "client"
      /\ \E i \in 1..Len(sent') : sent'[i].op = "USERAUTH_REQUEST")
       => state' = "WaitingAuthRequest"]_vars

\* C33: when a key exchange this side started is pending on an encrypted
\* session and a packet other than KEXINIT is dispatched, the Exchange is
\* still held afterwards, in the kex slot or in the encrypted state.
C33_PendingKexPreserved ==
  [][(/\ client.role = "server"
      /\ kex = "KexInit"
      /\ state # "NotEncrypted"
      /\ handled = ""
      /\ handled' # ""
      /\ buffer.op # "KEXINIT")
       => (kex' # "None" \/ exchange')]_vars

\* A well-formed SERVICE_REQUEST is given to server_read_encrypted in
\* WaitingServiceRequest.
ServiceDispatch ==
  /\ client.role = "server"
  /\ state = "WaitingServiceRequest"
  /\ kex \in {"None", "KexInit"}
  /\ buffer.op = "SERVICE_REQUEST"
  /\ ~buffer.trunc
  /\ handled = ""
  /\ handled' = "SERVICE_REQUEST"

\* C34: in WaitingServiceRequest a SERVICE_REQUEST for ssh-userauth emits
\* SERVICE_ACCEPT first, then USERAUTH_BANNER exactly when a banner is
\* configured, and moves to WaitingAuthRequest with the configured methods,
\* no current request and rejection_count 0; for another service nothing is
\* emitted and the state stays WaitingServiceRequest.
C34_ServiceRequest ==
  [][ServiceDispatch
       => IF buffer.service = "ssh-userauth"
          THEN /\ Answered(sent')
                    = IF config.auth_banner
                      THEN <<[op |-> "SERVICE_ACCEPT",
                              service |-> "ssh-userauth"],
                             [op |-> "USERAUTH_BANNER"]>>
                      ELSE <<[op |-> "SERVICE_ACCEPT",
                              service |-> "ssh-userauth"]>>
               /\ state' = "WaitingAuthRequest"
               /\ auth_request'.methods = config.methods
               /\ auth_request'.current = NoCurrent
               /\ auth_request'.rejection_count = 0
               /\ status' = "running"
          ELSE /\ Answered(sent') = <<>>
               /\ state' = "WaitingServiceRequest"
               /\ auth_request' = auth_request
               /\ status' = "running"]_vars

\* SERVICE_REQUEST(ssh-userauth) was answered by SERVICE_ACCEPT and the
\* configured banner.
C34_Witness ==
  /\ client.role = "server"
  /\ handled = "SERVICE_REQUEST"
  /\ config.auth_banner
  /\ state = "WaitingAuthRequest"
  /\ auth_request.rejection_count = 0
  /\ Len(sent) = 2
  /\ sent[1].op = "SERVICE_ACCEPT"
  /\ sent[2].op = "USERAUTH_BANNER"

\* The handler's auth_keyboard_interactive is asked in this step, on a
\* keyboard-interactive request or on an info response to one in progress.
KeyboardInteractiveDispatch ==
  /\ AuthDispatch
  /\ handled = ""
  /\ handled' # ""
  /\ ~buffer.trunc
  /\ \/ buffer \in KeyboardInteractiveRequests
     \/ /\ buffer \in InfoResponses
        /\ auth_request.current.tag = "KeyboardInteractive"

\* C35: on a keyboard-interactive request and on each info response to it,
\* Accept emits USERAUTH_SUCCESS and authenticates, Reject performs the
\* rejection, Partial emits one USERAUTH_INFO_REQUEST and nothing else and
\* stays in WaitingAuthRequest with the keyboard-interactive request still
\* current.
C35_KeyboardInteractive ==
  [][KeyboardInteractiveDispatch
       => /\ called' = <<"auth_keyboard_interactive">>
          /\ auth' = "Accept"
               => /\ Answered(sent') = <<[op |-> "USERAUTH_SUCCESS"]>>
                  /\ state' = "Authenticated"
          /\ auth' = "Reject" => Rejection
          /\ auth' = "Partial"
               => /\ Answered(sent') = <<[op |-> "USERAUTH_INFO_REQUEST"]>>
                  /\ state' = "WaitingAuthRequest"
                  /\ status' = "running"
                  /\ auth_request'.current.tag = "KeyboardInteractive"
                  /\ auth_request'.rejection_count
                       = auth_request.rejection_count]_vars

\* An info response to a request in progress was answered Partial again:
\* a second USERAUTH_INFO_REQUEST went out and the request is still current.
C35_Witness ==
  /\ handled = "USERAUTH_INFO_RESPONSE"
  /\ called = <<"auth_keyboard_interactive">>
  /\ auth = "Partial"
  /\ sent = <<[op |-> "USERAUTH_INFO_REQUEST"]>>
  /\ state = "WaitingAuthRequest"
  /\ auth_request.current.tag = "KeyboardInteractive"

\* C36: a USERAUTH_INFO_RESPONSE that arrives in WaitingAuthRequest with no
\* keyboard-interactive request in progress does not reach the handler,
\* does not authenticate, and is a protocol error: the session ends with
\* Inconsistent.
C36_InfoResponseIllegal ==
  [][(/\ AuthDispatch
      /\ handled = ""
      /\ handled' # ""
      /\ buffer \in InfoResponses
      /\ auth_request.current.tag # "KeyboardInteractive")
       => /\ called' = <<>>
          /\ state' # "Authenticated"
          /\ status' = "failed"
          /\ err' = "Inconsistent"]_vars

\* C37: when auth_keyboard_interactive answers UnsupportedMethod the session
\* is not authenticated and the driver task is not aborted: the step ends
\* in a rejection or in a returned error.
C37_UnsupportedMethodDefined ==
  [][(KeyboardInteractiveDispatch /\ auth' = "UnsupportedMethod")
       => /\ state' # "Authenticated"
          /\ status' # "panicked"
          /\ (Rejection \/ status' = "failed")]_vars

\* A well-formed CHANNEL_OPEN of one of the three types the server opens
\* is dispatched in this step.
OpenDispatch ==
  /\ ChannelDispatch
  /\ buffer \in ChannelOpens
  /\ buffer.typ \in {"session", "x11", "direct-tcpip"}
  /\ ~buffer.trunc
  /\ handled = ""
  /\ handled' = "CHANNEL_OPEN"

\* The handler method of a channel type.
OpenHandler(typ) ==
  CASE typ = "session" -> "channel_open_session"
    [] typ = "x11" -> "channel_open_x11"
    [] OTHER -> "channel_open_direct_tcpip"

\* C38: CHANNEL_OPEN of type session, x11 or direct-tcpip registers a
\* channel under a local id that was not in the map, every other channel
\* staying as it was, with confirmed = true and the remote id, window and
\* maximum packet size of the packet; CHANNEL_OPEN_CONFIRMATION(remote id,
\* local id, window_size, maximum_packet_size) has been pushed when the
\* handler's channel_open_* method is invoked.
C38_ChannelOpen ==
  [][OpenDispatch
       => LET id == last_channel_id' IN
          /\ id \notin DOMAIN channels
          /\ DOMAIN channels' = DOMAIN channels \cup {id}
          /\ \A c \in DOMAIN channels : channels'[c] = channels[c]
          /\ channels'[id].confirmed
          /\ channels'[id].sender_channel = id
          /\ channels'[id].recipient_channel = buffer.sender
          /\ channels'[id].recipient_window_size = buffer.window
          /\ channels'[id].recipient_maximum_packet_size = buffer.maxpacket
          /\ called' = <<OpenHandler(buffer.typ)>>
          /\ args' = <<id>>
          /\ seen' = <<[op |-> "CHANNEL_OPEN_CONFIRMATION",
                        recipient |-> buffer.sender, sender |-> id,
                        window |-> config.window_size,
                        maxpacket |-> config.maximum_packet_size]>>]_vars

\* A second channel, of type x11, was opened beside the first and its
\* confirmation went out.
C38_Witness ==
  /\ handled = "CHANNEL_OPEN"
  /\ called = <<"channel_open_x11">>
  /\ status = "running"
  /\ DOMAIN channels = {1, 2}
  /\ channels[2].recipient_channel = 7
  /\ Len(sent) = 1
  /\ sent[1].op = "CHANNEL_OPEN_CONFIRMATION"
  /\ sent[1].sender = 2

\* A CHANNEL_CLOSE or CHANNEL_EOF is dispatched in this step.
CloseDispatch(op) ==
  /\ ChannelDispatch
  /\ buffer \in ChannelCloses
  /\ buffer.op = op
  /\ handled = ""
  /\ handled' = op

\* C39: CHANNEL_CLOSE(id) takes the channel off the map before
\* Handler.channel_close is invoked: the handler does not find id in the
\* map, and every other channel is as it was; CHANNEL_EOF(id) invokes
\* Handler.channel_eof and leaves the map as it is.
C39_CloseAndEof ==
  [][/\ CloseDispatch("CHANNEL_CLOSE")
          => /\ called' = <<"channel_close">>
             /\ args' = <<buffer.channel>>
             /\ observed' = DOMAIN channels \ {buffer.channel}
             /\ DOMAIN channels' = DOMAIN channels \ {buffer.channel}
             /\ \A c \in DOMAIN channels' : channels'[c] = channels[c]
     /\ CloseDispatch("CHANNEL_EOF")
          => /\ called' = <<"channel_eof">>
             /\ args' = <<buffer.channel>>
             /\ observed' = DOMAIN channels
             /\ channels' = channels]_vars

\* The first of two channels was closed: the handler was invoked with the
\* second alone in the map.
C39_Witness ==
  /\ handled = "CHANNEL_CLOSE"
  /\ called = <<"channel_close">>
  /\ args = <<1>>
  /\ observed = {2}
  /\ DOMAIN channels = {2}
  /\ status = "running"

\* The number of whole five-byte tuples of ms before the first opcode 0 or
\* the end of ms.
TuplesBefore(ms) ==
  LET stops == { k \in 0..(Len(ms) \div 5 + 1) :
                   \/ 5 * k + 5 > Len(ms)
                   \/ ms[5 * k + 1] = 0 }
  IN  CHOOSE k \in stops : \A j \in stops : k <= j

\* Those tuples, as (opcode, argument).
ExpectedModes(ms) ==
  [k \in 1..TuplesBefore(ms) |->
     <<ms[5 * k - 4], SubSeq(ms, 5 * k - 3, 5 * k)>>]

\* A pty-req reaches server_read_authenticated in this step.
PtyDispatch ==
  /\ status = "running"
  /\ kex = "None"
  /\ state = "Authenticated"
  /\ buffer \in PtyRequests
  /\ handled = ""
  /\ handled' = "CHANNEL_REQUEST"

\* C40: for every modes string of a pty-req the parsing completes without
\* aborting, and Handler.pty_request is given exactly the five-byte tuples
\* before the first opcode 0 or the end of the string.
C40_PtyModes ==
  [][PtyDispatch
       => /\ status' # "panicked"
          /\ called' = <<"pty_request">>
          /\ args' = <<buffer.channel, ExpectedModes(buffer.modes)>>]_vars

\* C40, first half alone: the parsing of the modes aborts for no string.
C40_PtyModesNoAbort ==
  [][PtyDispatch => status' # "panicked"]_vars

====
